---------------------------- MODULE Spec2Model ----------------------------
(***************************************************************************)
(* rkyv-with: the ArchiveWith / DeserializeWith derives.                   *)
(*                                                                         *)
(* The derives are modelled as functions from a type description (the      *)
(* DeriveInput: top-level attributes, data shape, fields with their        *)
(* attributes) to generated code, and the generated code is modelled as    *)
(* data that an interpreter runs: serialize_with, resolve_with and         *)
(* deserialize_with.                                                       *)
(*                                                                         *)
(* Encodings.                                                              *)
(*   Option<T>    : <<>> is None, <<x>> is Some(x).                        *)
(*   Result<T>    : [ok |-> TRUE, val |-> x] / [ok |-> FALSE, val |-> msg] *)
(*   Type         : [base |-> name, layers |-> wrappers], the type         *)
(*                  With<..With<With<base, l1>, l2>.., ln>; layers[1] is   *)
(*                  the innermost wrapper, layers[n] the outermost.        *)
(*   cast Expr    : [base |-> expr, casts |-> wrappers], the expression    *)
(*                  With::<_, cn>::cast(..With::<_, c1>::cast(base)..).    *)
(*   token stream : a sequence of strings; "," is the punctuation and "?"  *)
(*                  a token that parses as no type or path.                *)
(***************************************************************************)
EXTENDS Integers, Sequences, FiniteSets, TLC

None == <<>>
Some(x) == <<x>>
IsSome(o) == o /= <<>>
Unwrap(o) == o[1]

Ok(v) == [ok |-> TRUE, val |-> v]
Err(m) == [ok |-> FALSE, val |-> m]

\* lib.rs: const ATTR
ATTR == "archive_with"

Comma == ","
Bad == "?"

(***************************************************************************)
(* util.rs: PunctuatedExt                                                  *)
(***************************************************************************)

\* T::parse for a Type or Path: one token, which must be a type token.
ParsesAsType(tok) == tok /= Comma /\ tok /= Bad

\* A parser that takes an empty stream, and a trailing comma, as
\* parse_terminated does.
RECURSIVE parse_separated_nonempty_with_lenient(_, _)
parse_separated_nonempty_with_lenient(input, vec) ==
  IF input = <<>> THEN [ok |-> TRUE, val |-> vec, rest |-> <<>>]
  ELSE IF ~ParsesAsType(Head(input))
  THEN [ok |-> FALSE, val |-> "expected type", rest |-> input]
  ELSE LET vec2 == Append(vec, Head(input))
           rest == Tail(input)
       IN IF rest = <<>> \/ Head(rest) /= Comma
          THEN [ok |-> TRUE, val |-> vec2, rest |-> rest]
          ELSE parse_separated_nonempty_with_lenient(Tail(rest), vec2)

\* parse_separated_nonempty_with: returns [ok, val (the items), rest (the
\* tokens left in the stream)].
RECURSIVE parse_separated_nonempty_with(_, _)
parse_separated_nonempty_with(input, vec) ==
  IF input = <<>> \/ ~ParsesAsType(Head(input))
  THEN [ok |-> FALSE, val |-> "expected type", rest |-> input]
  ELSE LET vec2 == Append(vec, Head(input))
           rest == Tail(input)
       IN IF rest = <<>> \/ Head(rest) /= Comma
          THEN [ok |-> TRUE, val |-> vec2, rest |-> rest]
          ELSE parse_separated_nonempty_with(Tail(rest), vec2)

parse_separated_nonempty(input) == parse_separated_nonempty_with(input, <<>>)

\* parse_terminated_with: zero or more items, optional trailing punctuation,
\* the whole stream must be consumed.
RECURSIVE parse_terminated_with(_, _)
parse_terminated_with(input, vec) ==
  IF input = <<>>
  THEN Ok(vec)
  ELSE IF ~ParsesAsType(Head(input))
       THEN Err("expected type")
       ELSE LET vec2 == Append(vec, Head(input))
                rest == Tail(input)
            IN IF rest = <<>>
               THEN Ok(vec2)
               ELSE IF Head(rest) /= Comma
                    THEN Err("expected comma")
                    ELSE parse_terminated_with(Tail(rest), vec2)

parse_terminated(input) == parse_terminated_with(input, <<>>)

\* syn: a parenthesized!/parse_args_with stream that is dropped with tokens
\* left unread makes the enclosing parse fail ("unexpected token").
FullyConsumed(r) == IF r.ok /\ r.rest /= <<>> THEN Err("unexpected token") ELSE [ok |-> r.ok, val |-> r.val]

(***************************************************************************)
(* Attributes.  An attribute is [path, metas, args]: for #[archive_with(   *)
(* m1, m2, ..)] metas is the list of nested metas, each [key, args] with   *)
(* args the token stream inside the meta's parentheses (for getter: the    *)
(* one token of the string literal); for #[with(..)] args is the token     *)
(* stream of the attribute.                                                *)
(***************************************************************************)

\* The `?` operator: an Err returns at once, an Ok value goes on to K.
Try(r, K(_)) == IF r.ok THEN K(r.val) ELSE [ok |-> FALSE, val |-> r.val]

\* util.rs: parse_top_attrs, the closure given to parse_nested_meta
RECURSIVE TopMetas(_, _)
TopMetas(metas, from) ==
  IF metas = <<>> THEN Ok(from)
  ELSE IF Head(metas).key = "from"
  THEN Try(parse_terminated(Head(metas).args),
           LAMBDA types : TopMetas(Tail(metas), from \o types))
  ELSE Err("expected from")

\* util.rs: parse_top_attrs, the loop over the attributes
RECURSIVE TopAttrs(_, _)
TopAttrs(attrs, from) ==
  IF attrs = <<>> THEN Ok(from)
  ELSE IF Head(attrs).path /= ATTR
  THEN TopAttrs(Tail(attrs), from)
  ELSE Try(TopMetas(Head(attrs).metas, from), LAMBDA from2 : TopAttrs(Tail(attrs), from2))

parse_top_attrs(attrs) == TopAttrs(attrs, <<>>)

\* util.rs: struct ParsedAttributes, with getter_path and getter_owned of new
ParsedDefault == [from |-> None, via |-> None, getter_path |-> None, getter_owned |-> FALSE]

\* content.parse() of a single type or path
ParseOne(args) ==
  IF Len(args) = 1 /\ ParsesAsType(args[1]) THEN Ok(args[1]) ELSE Err("expected type")

\* util.rs: ParsedAttributes::new, the closure given to parse_nested_meta
RECURSIVE FieldMetas(_, _)
FieldMetas(metas, parsed) ==
  IF metas = <<>> THEN Ok(parsed)
  ELSE IF Head(metas).key = "from"
  THEN Try(ParseOne(Head(metas).args),
           LAMBDA t : FieldMetas(Tail(metas), [parsed EXCEPT !.from = Some(t)]))
  ELSE IF Head(metas).key = "via"
  THEN Try(FullyConsumed(parse_separated_nonempty(Head(metas).args)),
           LAMBDA ws : FieldMetas(Tail(metas), [parsed EXCEPT !.via = Some(ws)]))
  ELSE IF Head(metas).key = "getter"
  THEN Try(ParseOne(Head(metas).args),
           LAMBDA t : FieldMetas(Tail(metas), [parsed EXCEPT !.getter_path = Some(t)]))
  ELSE IF Head(metas).key = "getter_owned"
  THEN FieldMetas(Tail(metas), [parsed EXCEPT !.getter_owned = TRUE])
  ELSE FieldMetas(Tail(metas), parsed)

\* util.rs: ParsedAttributes::new, the loop over the attributes
RECURSIVE FieldAttrs(_, _)
FieldAttrs(attrs, parsed) ==
  IF attrs = <<>> THEN Ok(parsed)
  ELSE IF Head(attrs).path /= ATTR
  THEN FieldAttrs(Tail(attrs), parsed)
  ELSE Try(FieldMetas(Head(attrs).metas, parsed), LAMBDA p : FieldAttrs(Tail(attrs), p))

\* util.rs: ParsedAttributes::new, the end: the getter is set when a path
\* was given.  The result is [from, via, getter], getter = Some([path,
\* owned_self]).
WithGetter(p) ==
  [from |-> p.from,
   via |-> p.via,
   getter |-> IF IsSome(p.getter_path)
              THEN Some([path |-> Unwrap(p.getter_path), owned_self |-> p.getter_owned])
              ELSE None]

ParsedAttributes_new(attrs) ==
  Try(FieldAttrs(attrs, ParsedDefault), LAMBDA p : Ok(WithGetter(p)))

\* The duplicate is made as the annotated type instead of the foreign type.
Getter_make_expr_clone_self(getter, from_ty) ==
  IF getter.owned_self
  THEN [kind |-> "getter_owned", path |-> getter.path, clone_of |-> "Self"]
  ELSE [kind |-> "getter", path |-> getter.path, clone_of |-> ""]

\* util.rs: Getter::make_expr
Getter_make_expr(getter, from_ty) ==
  IF getter.owned_self
  THEN [kind |-> "getter_owned", path |-> getter.path, clone_of |-> from_ty]
  ELSE [kind |-> "getter", path |-> getter.path, clone_of |-> ""]

\* A wrapper type whose layers nest the other way round.
WithTy_inside_out(ty, wrapper) ==
  [base |-> ty.base, layers |-> <<wrapper>> \o ty.layers]

\* ::rkyv::with::With<#ty, #wrapper>
WithTy(ty, wrapper) ==
  [base |-> ty.base, layers |-> Append(ty.layers, wrapper)]
BareTy(name) == [base |-> name, layers |-> <<>>]

\* A cast that replaces the casts made so far instead of nesting them.
CastExpr_flat(expr, wrapper) == [base |-> expr.base, casts |-> <<wrapper>>]

\* ::rkyv::with::With::<_, #wrapper>::cast(#expr)
CastExpr(expr, wrapper) == [base |-> expr.base, casts |-> Append(expr.casts, wrapper)]
BareExpr(e) == [base |-> e, casts |-> <<>>]

\* #expr.into_inner()
IntoInner(expr) == [expr |-> expr.expr, unwraps |-> expr.unwraps + 1]
BareInner(e) == [expr |-> e, unwraps |-> 0]

\* iter().rev().fold(init, f): the last element is folded first.
RECURSIVE RevFold(_, _, _)
RevFold(f(_, _), init, xs) ==
  IF xs = <<>> THEN init
  ELSE RevFold(f, f(init, xs[Len(xs)]), SubSeq(xs, 1, Len(xs) - 1))

\* iter().flatten()
RECURSIVE Flatten(_)
Flatten(xss) == IF xss = <<>> THEN <<>> ELSE Head(xss) \o Flatten(Tail(xss))

\* The #[with(..)] attributes collected last first.
RECURSIVE WithAttrs_last_first(_, _)
WithAttrs_last_first(attrs, acc) ==
  IF attrs = <<>> THEN Ok(acc)
  ELSE IF Head(attrs).path /= "with"
  THEN WithAttrs_last_first(Tail(attrs), acc)
  ELSE Try(FullyConsumed(parse_separated_nonempty(Head(attrs).args)),
           LAMBDA ws : WithAttrs_last_first(Tail(attrs), <<ws>> \o acc))

\* util.rs: with, the filter_map/collect part: the wrappers of every
\* #[with(..)] attribute, or the first parse error.
RECURSIVE WithAttrs(_, _)
WithAttrs(attrs, acc) ==
  IF attrs = <<>> THEN Ok(acc)
  ELSE IF Head(attrs).path /= "with"
  THEN WithAttrs(Tail(attrs), acc)
  ELSE Try(FullyConsumed(parse_separated_nonempty(Head(attrs).args)),
           LAMBDA ws : WithAttrs(Tail(attrs), Append(acc, ws)))

\* util.rs: with
with(field, init, f(_, _)) ==
  Try(WithAttrs(field.attrs, <<>>), LAMBDA fields : Ok(RevFold(f, init, Flatten(fields))))

\* The via wrappers composed onto the declared type although from is given.
WithTyMatch_onto_declared(field, parsed_attrs) ==
  IF IsSome(parsed_attrs.via)
  THEN Ok(RevFold(WithTy, BareTy(field.ty), Unwrap(parsed_attrs.via)))
  ELSE IF IsSome(parsed_attrs.from)
  THEN Ok(WithTy(BareTy(Unwrap(parsed_attrs.from)), field.ty))
  ELSE with(field, BareTy(field.ty), WithTy)

\* util.rs: with_ty, the match on (from, via)
WithTyMatch(field, parsed_attrs) ==
  IF IsSome(parsed_attrs.from) /\ IsSome(parsed_attrs.via)
  THEN Ok(RevFold(WithTy, BareTy(Unwrap(parsed_attrs.from)), Unwrap(parsed_attrs.via)))
  ELSE IF IsSome(parsed_attrs.from)
  THEN Ok(WithTy(BareTy(Unwrap(parsed_attrs.from)), field.ty))
  ELSE IF IsSome(parsed_attrs.via)
  THEN Ok(RevFold(WithTy, BareTy(field.ty), Unwrap(parsed_attrs.via)))
  ELSE with(field, BareTy(field.ty), WithTy)

\* util.rs: with_ty; the result's val is <<ty, parsed_attrs>>.
with_ty(field) ==
  Try(ParsedAttributes_new(field.attrs),
      LAMBDA parsed_attrs :
        Try(WithTyMatch(field, parsed_attrs), LAMBDA ty : Ok(<<ty, parsed_attrs>>)))

\* No arm for from without via: the field falls to the anonymous chain.
WithCastMatch_no_from_arm(field, expr, parsed_attr) ==
  IF IsSome(parsed_attr.via)
  THEN Ok(RevFold(CastExpr, BareExpr(expr), Unwrap(parsed_attr.via)))
  ELSE with(field, BareExpr(expr), CastExpr)

\* util.rs: with_cast, the match on (from, via)
WithCastMatch(field, expr, parsed_attr) ==
  IF IsSome(parsed_attr.from) /\ ~IsSome(parsed_attr.via)
  THEN Ok(CastExpr(BareExpr(expr), field.ty))
  ELSE IF IsSome(parsed_attr.via)
  THEN Ok(RevFold(CastExpr, BareExpr(expr), Unwrap(parsed_attr.via)))
  ELSE with(field, BareExpr(expr), CastExpr)

\* A with_cast that parses the #[with(..)] attributes whatever the field
\* declares.
with_cast_reads_with(field, expr) ==
  Try(ParsedAttributes_new(field.attrs),
      LAMBDA parsed_attr :
        Try(WithAttrs(field.attrs, <<>>),
            LAMBDA unused : WithCastMatch(field, expr, parsed_attr)))

\* util.rs: with_cast
with_cast(field, expr) ==
  Try(ParsedAttributes_new(field.attrs),
      LAMBDA parsed_attr : WithCastMatch(field, expr, parsed_attr))

\* util.rs: with_inner, the closure |expr, _| #expr.into_inner()
IntoInnerStep(expr, wrapper) == IntoInner(expr)

\* iter::repeat(quote!(.into_inner())).take(n), appended to the expression
RECURSIVE RepeatIntoInner(_, _)
RepeatIntoInner(expr, n) == IF n = 0 THEN expr ELSE RepeatIntoInner(IntoInner(expr), n - 1)

\* One unwrap whatever the chain.
IntoInnerCount_one(attrs) == 1

\* util.rs: with_inner, into_inner_count
IntoInnerCount(attrs) == IF IsSome(attrs.via) THEN Len(Unwrap(attrs.via)) ELSE 1

\* The anonymous chain decides the unwraps even beside from/via.
with_inner_anonymous_first(field, attrs, expr) ==
  with(field, BareInner(expr), IntoInnerStep)

\* util.rs: with_inner
with_inner(field, attrs, expr) ==
  IF ~IsSome(attrs.from) /\ ~IsSome(attrs.via)
  THEN with(field, BareInner(expr), IntoInnerStep)
  ELSE Ok(RepeatIntoInner(BareInner(expr), IntoInnerCount(attrs)))

(***************************************************************************)
(* The DeriveInput.                                                        *)
(*   input   : [attrs, ident, data]                                        *)
(*   data    : [kind ("struct" | "enum" | "union"), style, fields,         *)
(*              variants]; style and fields are those of a struct          *)
(*   style   : "named" | "unnamed" | "unit"  (syn::Fields)                 *)
(*   field   : [ident, ty, attrs]                                          *)
(*   variant : [ident, style, fields]                                      *)
(* A member of a struct is a field name (named) or a zero-based index      *)
(* (unnamed), both as the token that names it: "a", "0".                   *)
(***************************************************************************)

\* How a generation ends: code, an Err the macro turns into compile_error!,
\* or a panic of the macro (an unwrap() of an Err).
GenOk(code) == [status |-> "ok", code |-> code, msg |-> ""]
GenErr(m) == [status |-> "err", code |-> <<>>, msg |-> m]
GenPanic == [status |-> "panic", code |-> <<>>, msg |-> "called unwrap() on an Err value"]

\* The first Err of a sequence of Results.
RECURSIVE FirstErr(_)
FirstErr(rs) ==
  IF rs = <<>> THEN "" ELSE IF ~Head(rs).ok THEN Head(rs).val ELSE FirstErr(Tail(rs))

\* The values of a sequence of Results, or the first Err: what a loop with
\* `?` on every element, or collect::<Result<Vec<_>>>(), gives.
Collect(rs) ==
  IF \A i \in 1..Len(rs) : rs[i].ok
  THEN Ok([i \in 1..Len(rs) |-> rs[i].val])
  ELSE Err(FirstErr(rs))

\* Index::from(i), as the member name it prints to.
IndexNames == <<"0", "1", "2", "3", "4", "5", "6">>
Index(i) == IndexNames[i + 1]

\* field.ident / Index::from(i)
Member(style, field, i) == IF style = "named" THEN field.ident ELSE Index(i)

\* The `for field in fields { let (ty, _) = with_ty(field)?; .. }` loops:
\* the where-clause types, or the first error.
Predicates(fields) ==
  Try(Collect([i \in 1..Len(fields) |-> with_ty(fields[i])]),
      LAMBDA tys : Ok([i \in 1..Len(tys) |-> tys[i][1]]))

\* attrs.getter.as_ref().map_or_else(|| (field.#name), |getter| getter.make_expr(from_ty))
AccessExpr(attrs, member, from_ty) ==
  IF IsSome(attrs.getter)
  THEN Getter_make_expr(Unwrap(attrs.getter), from_ty)
  ELSE [kind |-> "field", path |-> member, clone_of |-> ""]

\* attrs.from.as_ref().unwrap_or(&field.ty)
FromOrTy(attrs, field) == IF IsSome(attrs.from) THEN Unwrap(attrs.from) ELSE field.ty

\* resolve_fields where every field takes the first field's resolver.
StructResolveField_first_resolver(style, field, i, from_ty) ==
  Try(ParsedAttributes_new(field.attrs), LAMBDA attrs :
    Try(with_cast(field, "__field"), LAMBDA cast :
      Ok([out |-> Member(style, field, i),
          ty |-> FromOrTy(attrs, field),
          expr |-> AccessExpr(attrs, Member(style, field, i), from_ty),
          cast |-> cast,
          resolver |-> IF style = "named" THEN "a" ELSE Index(0)])))

\* archive_with.rs: resolve_fields of a struct (named: 62-78, unnamed:
\* 166-188).  One statement group per field:
\*   let (fp, fo) = out_field!(out.#member);
\*   let __field: &#ty = &#expr;
\*   ::rkyv::Archive::resolve(#cast, pos + fp, resolver.#member, fo);
\* Each Err below is an unwrap() that panics.
StructResolveField(style, field, i, from_ty) ==
  Try(ParsedAttributes_new(field.attrs), LAMBDA attrs :
    Try(with_cast(field, "__field"), LAMBDA cast :
      Ok([out |-> Member(style, field, i),
          ty |-> FromOrTy(attrs, field),
          expr |-> AccessExpr(attrs, Member(style, field, i), from_ty),
          cast |-> cast,
          resolver |-> Member(style, field, i)])))

\* archive_with.rs: field_vars of a struct (named: 104-116, unnamed: 214-226)
\*   let #ident: &#ty = &#expr;
StructFieldVar(style, field, i, from_ty) ==
  Try(ParsedAttributes_new(field.attrs), LAMBDA attrs :
    Ok([ident |-> <<"__", Member(style, field, i)>>,
        ty |-> FromOrTy(attrs, field),
        expr |-> AccessExpr(attrs, Member(style, field, i), from_ty)]))

\* archive_with.rs: resolver_values of a struct (named: 118-125, unnamed:
\* 228-236)
\*   #member: Serialize::<__S>::serialize(#cast, serializer)?
StructResolverValue(style, field, i) ==
  Try(with_cast(field, <<"__", Member(style, field, i)>>), LAMBDA cast :
    Ok([slot |-> Member(style, field, i), cast |-> cast]))

\* archive_with.rs: the ArchiveWith impl of a struct for one from_ty
StructArchiveImpl(data, from_ty) ==
  Try(Collect([i \in 1..Len(data.fields) |->
                 StructResolveField(data.style, data.fields[i], i - 1, from_ty)]),
      LAMBDA rf :
        Ok([from_ty |-> from_ty, shape |-> "struct", items |-> <<>>,
            archived_variant_tags |-> <<>>, archived_variant_structs |-> <<>>,
            resolve_fields |-> rf, resolve_arms |-> <<>>]))

\* archive_with.rs: the SerializeWith impl of a struct for one from_ty
StructSerializeImpl(data, from_ty) ==
  Try(Collect([i \in 1..Len(data.fields) |->
                 StructFieldVar(data.style, data.fields[i], i - 1, from_ty)]),
      LAMBDA fv :
        Try(Collect([i \in 1..Len(data.fields) |->
                       StructResolverValue(data.style, data.fields[i], i - 1)]),
            LAMBDA rv :
              Ok([from_ty |-> from_ty, shape |-> "struct",
                  field_vars |-> fv, resolver_values |-> rv,
                  resolver_style |-> data.style, serialize_arms |-> <<>>])))

(***************************************************************************)
(* archive_with.rs: Data::Enum                                             *)
(***************************************************************************)

\* Ident::new(&format!("ArchivedVariant{}", strip_raw(variant)), ..)
ArchivedVariantName(v) == <<"ArchivedVariant", v.ident>>

\* The members of a variant's layout struct, in declaration order:
\*   named:   __tag, the fields, __phantom
\*   unnamed: 0 (the tag), 1 .. n (the fields), n + 1 (the PhantomData)
VariantMembers(v) ==
  IF v.style = "named"
  THEN <<"__tag">> \o [i \in 1..Len(v.fields) |-> v.fields[i].ident] \o <<"__phantom">>
  ELSE [i \in 1..Len(v.fields) + 2 |-> Index(i - 1)]

\* archive_with.rs 356-397: the #[repr(C)] layout struct of a variant (none
\* for a unit variant).
ArchivedVariantStruct(v) ==
  Try(Collect([i \in 1..Len(v.fields) |-> with_ty(v.fields[i])]),
      LAMBDA tys :
        IF v.style = "unit" THEN Ok(None)
        ELSE Ok(Some([name |-> ArchivedVariantName(v),
                      members |-> VariantMembers(v),
                      tys |-> [i \in 1..Len(tys) |-> tys[i][1]]])))

\* A positional field resolved into the slot of its own index.
VariantResolve_own_index(v, f, i) ==
  Try(with_cast(f, <<"self", Member(v.style, f, i)>>), LAMBDA value :
    Ok([out |-> IF v.style = "named" THEN f.ident ELSE Index(i),
        value |-> value,
        resolver |-> <<"resolver", Member(v.style, f, i)>>]))

\* archive_with.rs 426-448 (named) and 482-499 (unnamed): one resolve
\* statement group of a variant's field:
\*   let (fp, fo) = out_field!(out.#member);
\*   ::rkyv::Archive::resolve(#value, pos + fp, #resolver_binding, fo);
VariantResolve(v, f, i) ==
  Try(with_cast(f, <<"self", Member(v.style, f, i)>>), LAMBDA value :
    Ok([out |-> IF v.style = "named" THEN f.ident ELSE Index(i + 1),
        value |-> value,
        resolver |-> <<"resolver", Member(v.style, f, i)>>]))

\* The bindings of a variant's pattern, one per field, in field order.
Bindings(prefix, v) ==
  [i \in 1..Len(v.fields) |-> <<prefix, Member(v.style, v.fields[i], i - 1)>>]

\* archive_with.rs 399-525: the arm of resolve_with's `match resolver` for
\* one variant.  match_field says whether the arm matches the source value
\* against the variant (with unreachable_unchecked() in the other case).
ResolveArm(v) ==
  Try(Collect([i \in 1..Len(v.fields) |-> VariantResolve(v, v.fields[i], i - 1)]),
      LAMBDA rs :
        IF v.style = "unit"
        THEN Ok([resolver_variant |-> v.ident, style |-> v.style,
                 match_field |-> FALSE, field_variant |-> "",
                 out_cast |-> <<"ArchivedTag", "">>, tag_member |-> "", tag |-> v.ident,
                 self_bindings |-> <<>>, resolver_bindings |-> <<>>, resolves |-> <<>>])
        ELSE Ok([resolver_variant |-> v.ident, style |-> v.style,
                 match_field |-> TRUE, field_variant |-> v.ident,
                 out_cast |-> ArchivedVariantName(v),
                 tag_member |-> IF v.style = "named" THEN "__tag" ELSE Index(0),
                 tag |-> v.ident,
                 self_bindings |-> Bindings("self", v),
                 resolver_bindings |-> Bindings("resolver", v),
                 resolves |-> rs]))

\* The tags in reverse declaration order.
ArchivedVariantTags_reversed(data) ==
  [i \in 1..Len(data.variants) |-> data.variants[Len(data.variants) + 1 - i].ident]

\* archive_with.rs 350-354 and 527-531: the variants of
\*   #[repr(u8)] enum ArchivedTag { #( #archived_variant_tags, )* }
\* in order; the discriminant of the i-th is i - 1.
ArchivedVariantTags(data) ==
  [i \in 1..Len(data.variants) |-> data.variants[i].ident]

\* The names of the items emitted beside the impl: ArchivedTag and the
\* layout structs.
ItemNames(structs) ==
  <<<<"ArchivedTag", "">>>> \o [i \in 1..Len(structs) |-> structs[i].name]

\* archive_with.rs 347-557: what is emitted for one from_ty of an enum: the
\* items ArchivedTag and the variant layout structs, and the ArchiveWith impl.
EnumArchiveImpl(data, from_ty) ==
  Try(Collect([i \in 1..Len(data.variants) |-> ArchivedVariantStruct(data.variants[i])]),
      LAMBDA structs :
        Try(Collect([i \in 1..Len(data.variants) |-> ResolveArm(data.variants[i])]),
            LAMBDA arms :
              Ok([from_ty |-> from_ty, shape |-> "enum",
                  items |-> ItemNames(Flatten(structs)),
                  archived_variant_tags |-> ArchivedVariantTags(data),
                  archived_variant_structs |-> Flatten(structs),
                  resolve_fields |-> <<>>,
                  resolve_arms |-> arms])))

\* archive_with.rs 562-614: the arm of serialize_with's `match field` for one
\* variant: the pattern #from_ty::#variant binds each field, each binding is
\* cast and serialized, and the resolver variant of the same name is built.
SerializeArm(v) ==
  Try(Collect([i \in 1..Len(v.fields) |->
                 with_cast(v.fields[i], Bindings(IF v.style = "named" THEN "" ELSE "_", v)[i])]),
      LAMBDA fs :
        Ok([field_variant |-> v.ident, style |-> v.style,
            bindings |-> Bindings(IF v.style = "named" THEN "" ELSE "_", v),
            fields |-> [i \in 1..Len(fs) |->
                          [slot |-> Member(v.style, v.fields[i], i - 1), cast |-> fs[i]]],
            resolver_variant |-> v.ident]))

\* archive_with.rs 559-632: the SerializeWith impl of an enum for one from_ty
EnumSerializeImpl(data, from_ty) ==
  Try(Collect([i \in 1..Len(data.variants) |-> SerializeArm(data.variants[i])]),
      LAMBDA arms :
        Ok([from_ty |-> from_ty, shape |-> "enum",
            field_vars |-> <<>>, resolver_values |-> <<>>,
            resolver_style |-> "enum", serialize_arms |-> arms]))

\* All fields of an enum, in the order of the validation loop (315-345).
RECURSIVE VariantFields(_)
VariantFields(vs) ==
  IF vs = <<>> THEN <<>> ELSE Head(vs).fields \o VariantFields(Tail(vs))

AllFields(data) == IF data.kind = "struct" THEN data.fields ELSE VariantFields(data.variants)

\* archive_with.rs: derive, the impls of every from_ty; an Err is a panic.
ArchiveImpls(data, from_tys) ==
  Collect([k \in 1..Len(from_tys) |->
             IF data.kind = "struct" THEN StructArchiveImpl(data, from_tys[k])
             ELSE EnumArchiveImpl(data, from_tys[k])])

\* An impl for the first foreign type only.
SerializeImpls_first_only(data, from_tys) ==
  Collect([k \in 1..1 |->
             IF data.kind = "struct" THEN StructSerializeImpl(data, from_tys[k])
             ELSE EnumSerializeImpl(data, from_tys[k])])

SerializeImpls(data, from_tys) ==
  Collect([k \in 1..Len(from_tys) |->
             IF data.kind = "struct" THEN StructSerializeImpl(data, from_tys[k])
             ELSE EnumSerializeImpl(data, from_tys[k])])

\* archive_with.rs: derive, the final quote!: the contents of the two
\* `const _: () = { .. }` scopes.
ArchiveTokens(where, archive_impls, serialize_impls) ==
  IF ~archive_impls.ok \/ ~serialize_impls.ok THEN GenPanic
  ELSE GenOk([archive_where |-> where,
              archive_impl |-> archive_impls.val,
              serialize_impl |-> serialize_impls.val])

\* archive_with.rs: derive, the match on input.data
ArchiveMatchData(data, from_tys, where) ==
  IF ~where.ok THEN GenErr(where.val)
  ELSE ArchiveTokens(where.val, ArchiveImpls(data, from_tys), SerializeImpls(data, from_tys))

\* No check that a foreign type was named.
ArchiveWithFrom_unchecked(input, from_tys) ==
  IF ~from_tys.ok THEN GenErr(from_tys.val)
  ELSE IF input.data.kind = "union"
  THEN GenErr("ArchiveWith cannot be derived for unions")
  ELSE ArchiveMatchData(input.data, from_tys.val, Predicates(AllFields(input.data)))

\* archive_with.rs: derive, after parse_top_attrs
ArchiveWithFrom(input, from_tys) ==
  IF ~from_tys.ok THEN GenErr(from_tys.val)
  ELSE IF from_tys.val = <<>>
  THEN GenErr("requires top level attribute #[archive_with(from(TypeName))]")
  ELSE IF input.data.kind = "union"
  THEN GenErr("ArchiveWith cannot be derived for unions")
  ELSE ArchiveMatchData(input.data, from_tys.val, Predicates(AllFields(input.data)))

\* The sink parameter is left out.
impl_input_params_none(sink, params) ==
  params

\* archive_with.rs 15-20, deserialize_with.rs 15-20: the sink or context
\* parameter first, then the parameters of the input.  A parameter is
\* [kind, name], kind "lifetime", "type" or "const".
impl_input_params(sink, params) ==
  <<[kind |-> "type", name |-> sink]>> \o params

IsLifetime(param) == param.kind = "lifetime"

NoLifetime(param) == ~IsLifetime(param)

\* syn: Generics::split_for_impl().0 prints the lifetimes before the types
\* and consts, each group in the order of params.
ImplGenerics(params) ==
  SelectSeq(params, IsLifetime) \o SelectSeq(params, NoLifetime)

\* syn: Generics::split_for_impl().1, the names of the parameters
TypeGenerics(params) ==
  [i \in 1..Len(ImplGenerics(params)) |-> ImplGenerics(params)[i].name]

\* archive_with.rs 11-29: the generics of the two kinds of impl
ArchiveGenerics(out, generics) ==
  IF out.status /= "ok" THEN out
  ELSE GenOk([archive_where |-> out.code.archive_where,
              archive_impl |-> out.code.archive_impl,
              serialize_impl |-> out.code.serialize_impl,
              impl_generics |-> ImplGenerics(generics),
              serialize_impl_generics |-> ImplGenerics(impl_input_params("__S", generics)),
              ty_generics |-> TypeGenerics(generics)])

\* archive_with.rs: derive
archive_with_derive(input) ==
  ArchiveGenerics(ArchiveWithFrom(input, parse_top_attrs(input.attrs)), input.generics)

(***************************************************************************)
(* deserialize_with.rs                                                     *)
(***************************************************************************)

\* The deserialized wrapper is returned without any into_inner().
DeserializeField_wrapped(style, field, i, source) ==
  Try(with_ty(field), LAMBDA r :
    Ok([slot |-> Member(style, field, i),
        value |-> BareInner([ty |-> r[1], source |-> source])]))

\* deserialize_with.rs 58-79, 120-138 (struct) and 226-242, 257-274 (enum):
\* the value of one field,
\*   Deserialize::<#ty, __D>::deserialize(#source, deserializer)? .into_inner()..
\* with #source = &field.#member for a struct, the binding for a variant.
DeserializeField(style, field, i, source) ==
  Try(with_ty(field), LAMBDA r :
    Try(with_inner(field, r[2], [ty |-> r[1], source |-> source]), LAMBDA value :
      Ok([slot |-> Member(style, field, i), value |-> value])))

\* The impl of a struct that always builds the value with named fields.
StructDeserializeImpl_named_ctor(data, from_ty) ==
  Try(Collect([i \in 1..Len(data.fields) |->
                 DeserializeField(data.style, data.fields[i], i - 1,
                                  <<"field", Member(data.style, data.fields[i], i - 1)>>)]),
      LAMBDA df :
        Ok([from_ty |-> from_ty, shape |-> "struct", ctor |-> "named",
            deserialize_fields |-> df, deserialize_variants |-> <<>>]))

\* deserialize_with.rs 81-100, 117-156, 158-175: the impl of a struct
StructDeserializeImpl(data, from_ty) ==
  Try(Collect([i \in 1..Len(data.fields) |->
                 DeserializeField(data.style, data.fields[i], i - 1,
                                  <<"field", Member(data.style, data.fields[i], i - 1)>>)]),
      LAMBDA df :
        Ok([from_ty |-> from_ty, shape |-> "struct", ctor |-> data.style,
            deserialize_fields |-> df, deserialize_variants |-> <<>>]))

\* An arm that builds the first variant whatever the archived variant is.
DeserializeVariant_first_ctor(v) ==
  Try(Collect([i \in 1..Len(v.fields) |->
                 DeserializeField(v.style, v.fields[i], i - 1,
                                  Bindings(IF v.style = "named" THEN "" ELSE "_", v)[i])]),
      LAMBDA fs :
        Ok([archived_variant |-> v.ident, style |-> v.style,
            bindings |-> Bindings(IF v.style = "named" THEN "" ELSE "_", v),
            fields |-> fs,
            ctor_variant |-> "A"]))

\* deserialize_with.rs 215-285: the arm of `match field` for one variant
DeserializeVariant(v) ==
  Try(Collect([i \in 1..Len(v.fields) |->
                 DeserializeField(v.style, v.fields[i], i - 1,
                                  Bindings(IF v.style = "named" THEN "" ELSE "_", v)[i])]),
      LAMBDA fs :
        Ok([archived_variant |-> v.ident, style |-> v.style,
            bindings |-> Bindings(IF v.style = "named" THEN "" ELSE "_", v),
            fields |-> fs,
            ctor_variant |-> v.ident]))

\* deserialize_with.rs 212-305: the impl of an enum
EnumDeserializeImpl(data, from_ty) ==
  Try(Collect([i \in 1..Len(data.variants) |-> DeserializeVariant(data.variants[i])]),
      LAMBDA arms :
        Ok([from_ty |-> from_ty, shape |-> "enum", ctor |-> "enum",
            deserialize_fields |-> <<>>, deserialize_variants |-> arms]))

\* deserialize_with.rs: derive, the impls of every from_ty; an Err is a panic.
DeserializeImpls(data, from_tys) ==
  Collect([k \in 1..Len(from_tys) |->
             IF data.kind = "struct" THEN StructDeserializeImpl(data, from_tys[k])
             ELSE EnumDeserializeImpl(data, from_tys[k])])

\* deserialize_with.rs: derive, the final quote!
DeserializeTokens(where, impls) ==
  IF ~impls.ok THEN GenPanic
  ELSE GenOk([deserialize_where |-> where, deserialize_impl |-> impls.val])

\* deserialize_with.rs: derive, the match on input.data
DeserializeMatchData(data, from_tys, where) ==
  IF ~where.ok THEN GenErr(where.val)
  ELSE DeserializeTokens(where.val, DeserializeImpls(data, from_tys))

\* No arm for Data::Union: a union goes the way of the other shapes.
DeserializeWithFrom_no_union_arm(input, from_tys) ==
  IF ~from_tys.ok THEN GenErr(from_tys.val)
  ELSE IF from_tys.val = <<>>
  THEN GenErr("requires top level attribute #[archive_with(from(TypeName))]")
  ELSE DeserializeMatchData(input.data, from_tys.val, Predicates(AllFields(input.data)))

\* deserialize_with.rs: derive, after parse_top_attrs
DeserializeWithFrom(input, from_tys) ==
  IF ~from_tys.ok THEN GenErr(from_tys.val)
  ELSE IF from_tys.val = <<>>
  THEN GenErr("requires top level attribute #[archive_with(from(TypeName))]")
  ELSE IF input.data.kind = "union"
  THEN GenErr("DeserializeWith cannot be derived for unions")
  ELSE DeserializeMatchData(input.data, from_tys.val, Predicates(AllFields(input.data)))

\* deserialize_with.rs: derive
DeserializeGenerics(out, generics) ==
  IF out.status /= "ok" THEN out
  ELSE GenOk([deserialize_where |-> out.code.deserialize_where,
              deserialize_impl |-> out.code.deserialize_impl,
              impl_generics |-> ImplGenerics(impl_input_params("__D", generics)),
              ty_generics |-> TypeGenerics(generics)])

deserialize_with_derive(input) ==
  DeserializeGenerics(DeserializeWithFrom(input, parse_top_attrs(input.attrs)), input.generics)

(***************************************************************************)
(* The generated code at run time.                                         *)
(*   A foreign value is [variant, fields]: variant is "" for a struct,     *)
(*   fields maps each member to [val, ty].                                 *)
(*   A field resolver is [val, enc]: what was serialized and through which *)
(*   wrappers (innermost first).  A resolver is [variant, fields].         *)
(*   The archived memory `out` is a sequence of cells, one per member of   *)
(*   the archived layout, at offsets 0, 1, ..                              *)
(***************************************************************************)

Uninit == [kind |-> "uninit", tag |-> -1, val |-> -1, base |-> "", enc |-> <<>>,
           res |-> [val |-> -1, enc |-> <<>>], pos |-> -1]
TagCell(t) == [Uninit EXCEPT !.kind = "tag", !.tag = t]
FieldCell(v, b, e, r, p) ==
  [kind |-> "field", tag |-> -1, val |-> v, base |-> b, enc |-> e, res |-> r, pos |-> p]

\* The position of member m in a layout (1-based), 0 if it is no member.
IndexOf(members, m) ==
  IF \E i \in 1..Len(members) : members[i] = m
  THEN CHOOSE i \in 1..Len(members) : members[i] = m
  ELSE 0

\* rkyv's #[derive(Archive)] on the annotated type: the archived struct has
\* the struct's members in declaration order; an archived enum is #[repr(u8)]
\* with the variants in declaration order, each laid out as the tag followed
\* by the variant's fields in declaration order.
ArchivedStructLayout(data) ==
  [i \in 1..Len(data.fields) |-> Member(data.style, data.fields[i], i - 1)]

\* The user's accessor functions: each reads the (private) field of the
\* foreign value that the annotated field stands for.
GetterFn(path, x, member) == x.fields[member]

\* What an expression that does not type-check stands for.
IllTyped == [val |-> -1, ty |-> "!"]

\* Clone::clone: a duplicate equal to the value.
Clone(x) == x

\* Evaluates #expr on the foreign value `field`, which is of type from_ty:
\*   (field.#name)                               direct access
\*   #path (field)                               the getter on the reference
\*   #path (<#ty as Clone>::clone(field))        the getter on a duplicate;
\*                                               #ty must be field's type
EvalAccess(expr, x, member, from_ty) ==
  IF expr.kind = "field" THEN x.fields[expr.path]
  ELSE IF expr.kind = "getter" THEN GetterFn(expr.path, x, member)
  ELSE IF expr.clone_of = from_ty THEN GetterFn(expr.path, Clone(x), member)
  ELSE IllTyped

\* serialize whose sink write is issued twice.
SerializeOne_twice(st, slot, v, casts, cap) ==
  IF ~st.ok THEN st
  ELSE IF Len(st.sink) >= cap
  THEN [ok |-> FALSE, sink |-> st.sink, tried |-> Append(st.tried, slot), fields |-> st.fields]
  ELSE [ok |-> TRUE,
        sink |-> st.sink \o <<[slot |-> slot, val |-> v.val, enc |-> casts],
                               [slot |-> slot, val |-> v.val, enc |-> casts]>>,
        tried |-> Append(st.tried, slot),
        fields |-> Append(st.fields, [slot |-> slot, res |-> [val |-> v.val, enc |-> casts]])]

\* serialize without the `?`: a failure is noted and the next field goes on.
SerializeOne_no_return(st, slot, v, casts, cap) ==
  IF Len(st.sink) >= cap
  THEN [ok |-> FALSE, sink |-> st.sink, tried |-> Append(st.tried, slot), fields |-> st.fields]
  ELSE [ok |-> st.ok,
        sink |-> Append(st.sink, [slot |-> slot, val |-> v.val, enc |-> casts]),
        tried |-> Append(st.tried, slot),
        fields |-> Append(st.fields, [slot |-> slot, res |-> [val |-> v.val, enc |-> casts]])]

\* Serialize::<__S>::serialize(#cast, serializer)?: the sink accepts `cap`
\* writes; state is [ok, sink, tried, fields]: the writes the sink took, the
\* slots whose serialize was called, and the resolvers built so far.
SerializeOne(st, slot, v, casts, cap) ==
  IF ~st.ok THEN st
  ELSE IF Len(st.sink) >= cap
  THEN [ok |-> FALSE, sink |-> st.sink, tried |-> Append(st.tried, slot), fields |-> st.fields]
  ELSE [ok |-> TRUE,
        sink |-> Append(st.sink, [slot |-> slot, val |-> v.val, enc |-> casts]),
        tried |-> Append(st.tried, slot),
        fields |-> Append(st.fields, [slot |-> slot, res |-> [val |-> v.val, enc |-> casts]])]

\* The generated serialize_with of a struct: every field_var is evaluated,
\* then the resolver values in order, returning at the first error.
RECURSIVE SerializeStructFields(_, _, _, _, _)
SerializeStructFields(impl, x, i, st, cap) ==
  IF i > Len(impl.resolver_values) THEN st
  ELSE LET rv == impl.resolver_values[i]
           var == impl.field_vars[IndexOf([j \in 1..Len(impl.field_vars) |-> impl.field_vars[j].ident],
                                          rv.cast.base)]
           v == EvalAccess(var.expr, x, rv.slot, impl.from_ty)
       IN SerializeStructFields(impl, x, i + 1,
                                SerializeOne(st, rv.slot, v, rv.cast.casts, cap), cap)

\* The arm of `match field` that matches x (the first one, as match does).
FirstArm(arms, P(_)) ==
  IF \E i \in 1..Len(arms) : P(arms[i])
  THEN CHOOSE i \in 1..Len(arms) : P(arms[i]) /\ \A j \in 1..(i - 1) : ~P(arms[j])
  ELSE 0

RECURSIVE SerializeArmFields(_, _, _, _, _)
SerializeArmFields(arm, x, i, st, cap) ==
  IF i > Len(arm.fields) THEN st
  ELSE LET f == arm.fields[i]
           \* the pattern binds the variant's member to the binding the cast names
           b == IndexOf(arm.bindings, f.cast.base)
           v == x.fields[IF arm.style = "named" THEN arm.bindings[b][2] ELSE Index(b - 1)]
       IN SerializeArmFields(arm, x, i + 1, SerializeOne(st, f.slot, v, f.cast.casts, cap), cap)

\* Turns the list of [slot, res] into the resolver's field map.
ResolverOf(variant, fields) ==
  [variant |-> variant,
   fields |-> [m \in {fields[i].slot : i \in 1..Len(fields)} |->
                 fields[IndexOf([i \in 1..Len(fields) |-> fields[i].slot], m)].res]]

\* Ok(Resolver { .. }) when every `?` passed, the Err of the first failing
\* `?` otherwise (no resolver).
SerializeResult(st, variant) ==
  [ok |-> st.ok, sink |-> st.sink, tried |-> st.tried,
   resolver |-> IF st.ok THEN ResolverOf(variant, st.fields) ELSE None]

\* The generated serialize_with: [ok, sink, tried, resolver].
serialize_with(impl, x, cap) ==
  LET st0 == [ok |-> TRUE, sink |-> <<>>, tried |-> <<>>, fields |-> <<>>] IN
  IF impl.shape = "struct"
  THEN SerializeResult(SerializeStructFields(impl, x, 1, st0, cap), "")
  ELSE LET hit(a) == a.field_variant = x.variant
           arm == impl.serialize_arms[FirstArm(impl.serialize_arms, hit)]
       IN SerializeResult(SerializeArmFields(arm, x, 1, st0, cap), arm.resolver_variant)

\* The size of the archived value: the members of the struct, or the tag
\* and the fields (and the PhantomData) of the largest variant.
RECURSIVE MaxLen(_)
MaxLen(vs) ==
  IF vs = <<>> THEN 0
  ELSE LET n == Len(Head(vs).fields) + 2
           m == MaxLen(Tail(vs))
       IN IF n > m THEN n ELSE m

Blank(data) ==
  IF data.kind = "struct"
  THEN [i \in 1..Len(data.fields) |-> Uninit]
  ELSE [i \in 1..MaxLen(data.variants) |-> Uninit]

\* Outcome of a resolve_with call: the memory, the offsets written in order,
\* and whether the call had undefined behaviour.
Outcome(out, log, ub) == [out |-> out, log |-> log, ub |-> ub]

\* ::rkyv::Archive::resolve(#cast, pos + fp, #resolver, fo) at member m of
\* the layout `members`.
ResolveOne(st, members, m, v, base, casts, res, pos) ==
  LET i == IndexOf(members, m) IN
  Outcome([st.out EXCEPT ![i] = FieldCell(v.val, base, casts, res, pos + i - 1)],
          Append(st.log, i - 1), st.ub)

RECURSIVE ResolveStructFields(_, _, _, _, _, _, _)
ResolveStructFields(impl, members, x, resolver, pos, i, st) ==
  IF i > Len(impl.resolve_fields) THEN st
  ELSE LET rf == impl.resolve_fields[i]
           v == EvalAccess(rf.expr, x, rf.out, impl.from_ty)
       IN ResolveStructFields(impl, members, x, resolver, pos, i + 1,
             ResolveOne(st, members, rf.out, v, rf.ty, rf.cast.casts,
                        resolver.fields[rf.resolver], pos))

RECURSIVE ResolveArmFields(_, _, _, _, _, _, _)
ResolveArmFields(arm, members, x, resolver, pos, i, st) ==
  IF i > Len(arm.resolves) THEN st
  ELSE LET r == arm.resolves[i]
           \* the patterns bind the i-th member of the value and of the resolver
           sb == IndexOf(arm.self_bindings, r.value.base)
           rb == IndexOf(arm.resolver_bindings, r.resolver)
           v == x.fields[IF arm.style = "named" THEN arm.self_bindings[sb][2] ELSE Index(sb - 1)]
           res == resolver.fields[IF arm.style = "named" THEN arm.resolver_bindings[rb][2]
                                  ELSE Index(rb - 1)]
       IN ResolveArmFields(arm, members, x, resolver, pos, i + 1,
             ResolveOne(st, members, r.out, v, v.ty, r.value.casts, res, pos))

\* ::core::hint::unreachable_unchecked(): undefined behaviour.  The build
\* may leave the memory alone or run any arm's tag write.
Undefined(blank, ntags) ==
  {Outcome(blank, <<>>, TRUE)} \cup
  {Outcome([blank EXCEPT ![1] = TagCell(t)], <<0>>, TRUE) : t \in 0..(ntags - 1)}

\* A unit variant's arm that writes nothing.
ResolveUnitArm_silent(st0, t) == st0

\* The arm of a unit variant:
\*   out.cast::<ArchivedTag>().write(ArchivedTag::#variant);
ResolveUnitArm(st0, t) ==
  Outcome([st0.out EXCEPT ![1] = TagCell(t)], <<0>>, FALSE)

\* An arm body that resolves the fields first and writes the tag last.
ResolveMatchedArm_tag_last(arm, members, x, resolver, pos, st0, t) ==
  LET ti == IndexOf(members, arm.tag_member)
      st1 == ResolveArmFields(arm, members, x, resolver, pos, 1, st0)
  IN Outcome([st1.out EXCEPT ![ti] = TagCell(t)], Append(st1.log, ti - 1), st1.ub)

\* The body of the inner arm that matches `field`:
\*   let out = out.cast::<#archived_variant_name>();
\*   addr_of_mut!((*out).__tag).write(ArchivedTag::#variant);
\*   #( #resolves )*
ResolveMatchedArm(arm, members, x, resolver, pos, st0, t) ==
  LET ti == IndexOf(members, arm.tag_member)
      st1 == Outcome([st0.out EXCEPT ![ti] = TagCell(t)], <<ti - 1>>, FALSE)
  IN ResolveArmFields(arm, members, x, resolver, pos, 1, st1)

\* The generated resolve_with: the set of outcomes the build can produce.
resolve_with(impl, data, x, resolver, pos) ==
  LET st0 == Outcome(Blank(data), <<>>, FALSE) IN
  IF impl.shape = "struct"
  THEN {ResolveStructFields(impl, ArchivedStructLayout(data), x, resolver, pos, 1, st0)}
  ELSE LET hit(a) == a.resolver_variant = resolver.variant
           arm == impl.resolve_arms[FirstArm(impl.resolve_arms, hit)]
           t == IndexOf(impl.archived_variant_tags, arm.tag) - 1
       IN IF ~arm.match_field
          THEN {ResolveUnitArm(st0, t)}
          ELSE IF x.variant /= arm.field_variant
          THEN Undefined(st0.out, Len(impl.archived_variant_tags))
          ELSE LET names == [i \in 1..Len(impl.archived_variant_structs) |->
                               impl.archived_variant_structs[i].name]
                   members == impl.archived_variant_structs[IndexOf(names, arm.out_cast)].members
               IN {ResolveMatchedArm(arm, members, x, resolver, pos, st0, t)}

\* Deserialize::<#ty, __D>::deserialize(cell)? followed by the into_inner()
\* calls: the archived cell must hold a value of Archived<#ty> that was
\* resolved with its own resolver, and the unwraps must peel every layer.
Corrupt == [val |-> -1, ty |-> "!"]
DeserializeCell(cell, value) ==
  LET ty == value.expr.ty IN
  IF /\ cell.kind = "field"
     /\ cell.base = ty.base
     /\ cell.enc = ty.layers
     /\ cell.res = [val |-> cell.val, enc |-> cell.enc]
     /\ value.unwraps = Len(ty.layers)
  THEN [val |-> cell.val, ty |-> ty.base]
  ELSE Corrupt

\* The generated deserialize_with on the archived memory: the foreign value.
deserialize_with(impl, data, out) ==
  IF impl.shape = "struct"
  THEN LET members == ArchivedStructLayout(data)
           dfs == impl.deserialize_fields
           slots == [i \in 1..Len(dfs) |-> dfs[i].slot]
       IN [variant |-> "",
           fields |-> [m \in {slots[i] : i \in 1..Len(slots)} |->
              LET df == dfs[IndexOf(slots, m)]
              IN DeserializeCell(out[IndexOf(members, df.value.expr.source[2])], df.value)]]
  ELSE \* rkyv's archived enum: the tag selects the variant
       LET tag == out[1] IN
       IF tag.kind /= "tag" \/ tag.tag < 0 \/ tag.tag >= Len(data.variants)
       THEN [variant |-> "!", fields |-> <<>>]
       ELSE LET v == data.variants[tag.tag + 1]
                hit(a) == a.archived_variant = v.ident
                arm == impl.deserialize_variants[FirstArm(impl.deserialize_variants, hit)]
                slots == [i \in 1..Len(arm.fields) |-> arm.fields[i].slot]
            IN [variant |-> arm.ctor_variant,
                fields |-> [m \in {slots[i] : i \in 1..Len(slots)} |->
                   LET f == arm.fields[IndexOf(slots, m)]
                       \* the binding f reads names the b-th field of the variant
                       b == IF arm.style = "named"
                            THEN IndexOf([i \in 1..Len(v.fields) |-> v.fields[i].ident],
                                         f.value.expr.source[2])
                            ELSE IndexOf(arm.bindings, f.value.expr.source)
                   IN DeserializeCell(out[b + 1], f.value)]]

(***************************************************************************)
(* lib.rs: the two proc macros.  An Err becomes a compile_error!           *)
(* invocation (no implementation is emitted); a panic escapes.             *)
(***************************************************************************)
lib_archive_with(input) == archive_with_derive(input)

lib_deserialize_with(input) == deserialize_with_derive(input)

(***************************************************************************)
(* The inputs explored.                                                    *)
(***************************************************************************)
MaxChain == 3
MaxAttrs == 2
MaxFields == 2
MaxVariants == 2

Values == {0, 1}

ViaNames == <<"V1", "V2", "V3", "V4", "V5">>
WithNames == <<"A1", "A2", "A3", "A4", "A5">>
FieldIdents == <<"a", "b", "c", "d">>
VariantIdents == <<"A", "B", "C", "D">>

\* The token stream `w1, w2, .., wn`.
RECURSIVE Join(_)
Join(ws) ==
  IF Len(ws) <= 1 THEN ws ELSE <<Head(ws), Comma>> \o Join(Tail(ws))

Meta(key, args) == [key |-> key, args |-> args]
ArchiveWithAttr(metas) == [path |-> ATTR, metas |-> metas, args |-> <<>>]
WithAttr(args) == [path |-> "with", metas |-> <<>>, args |-> args]
OtherAttr == [path |-> "doc", metas |-> <<>>, args |-> <<>>]

WellFormedAttrs ==
     {WithAttr(Join(SubSeq(WithNames, 1, n))) : n \in 1..MaxChain}
  \cup {ArchiveWithAttr(<<Meta("from", <<t>>)>>) : t \in {"F1", "F2"}}
  \cup {ArchiveWithAttr(<<Meta("via", Join(SubSeq(ViaNames, 1, n)))>>) : n \in 1..MaxChain}
  \cup {ArchiveWithAttr(<<Meta("from", <<"F1">>), Meta("via", Join(SubSeq(ViaNames, 1, n)))>>) :
          n \in 1..MaxChain}
  \cup {ArchiveWithAttr(<<Meta("getter", <<"Remote::get">>)>>),
        ArchiveWithAttr(<<Meta("getter", <<"Remote::get">>), Meta("getter_owned", <<>>)>>),
        ArchiveWithAttr(<<Meta("rename", <<>>)>>),
        OtherAttr}

MalformedAttrs ==
  {ArchiveWithAttr(<<Meta("via", <<>>)>>),
   ArchiveWithAttr(<<Meta("from", <<Bad>>)>>),
   WithAttr(<<"A1", Comma>>),
   WithAttr(<<Bad>>)}

AttrChoices == WellFormedAttrs \cup MalformedAttrs

RECURSIVE SeqsUpTo(_, _)
SeqsUpTo(S, n) ==
  IF n = 0 THEN {<<>>}
  ELSE LET shorter == SeqsUpTo(S, n - 1) IN
       shorter \cup {Append(q, e) : q \in {q \in shorter : Len(q) = n - 1}, e \in S}

Field(i, attrs, style) ==
  [ident |-> IF style = "named" THEN FieldIdents[i] ELSE "", ty |-> "T", attrs |-> attrs]

\* A struct of one field carrying any attribute list.
RichStructs ==
  {[kind |-> "struct", style |-> "named", fields |-> <<Field(1, attrs, "named")>>, variants |-> <<>>] :
     attrs \in SeqsUpTo(AttrChoices, MaxAttrs)}

PlainAttrs == <<>>
With1Attrs == <<WithAttr(<<"A1">>)>>
FromViaAttrs == <<WithAttr(<<"A1">>),
                  ArchiveWithAttr(<<Meta("from", <<"F1">>), Meta("via", <<"V1", Comma, "V2">>)>>)>>
FromAttrs == <<ArchiveWithAttr(<<Meta("from", <<"F1">>)>>)>>
GetterAttrs == <<ArchiveWithAttr(<<Meta("getter", <<"Remote::get">>)>>)>>
SmallAttrs == {PlainAttrs, With1Attrs, FromViaAttrs, FromAttrs, GetterAttrs}

FieldLists(style, n) ==
  {[i \in 1..Len(q) |-> Field(i, q[i], style)] : q \in SeqsUpTo(SmallAttrs, n)}

SmallStructs ==
  UNION {{[kind |-> "struct", style |-> st, fields |-> fs, variants |-> <<>>] :
            fs \in FieldLists(st, MaxFields)} : st \in {"named", "unnamed"}}
  \cup {[kind |-> "struct", style |-> "unit", fields |-> <<>>, variants |-> <<>>]}

VariantShapes ==
  {[style |-> "unit", attrs |-> <<>>],
   [style |-> "unnamed", attrs |-> <<PlainAttrs>>],
   [style |-> "unnamed", attrs |-> <<FromViaAttrs, PlainAttrs>>],
   [style |-> "named", attrs |-> <<With1Attrs>>],
   [style |-> "named", attrs |-> <<PlainAttrs, FromAttrs>>],
   [style |-> "named", attrs |-> <<GetterAttrs>>]}

Variant(i, shape) ==
  [ident |-> VariantIdents[i], style |-> shape.style,
   fields |-> [j \in 1..Len(shape.attrs) |-> Field(j, shape.attrs[j], shape.style)]]

Enums ==
  {[kind |-> "enum", style |-> "", fields |-> <<>>,
    variants |-> [i \in 1..Len(q) |-> Variant(i, q[i])]] :
     q \in SeqsUpTo(VariantShapes, MaxVariants) \ {<<>>}}

Unions ==
  {[kind |-> "union", style |-> "named", fields |-> <<Field(1, attrs, "named")>>,
    variants |-> <<>>] :
     attrs \in {PlainAttrs, FromViaAttrs, <<ArchiveWithAttr(<<Meta("via", <<>>)>>)>>}}

TopFrom(tys) == ArchiveWithAttr(<<Meta("from", tys)>>)
OneFrom == <<TopFrom(<<"Remote">>)>>
TopChoices ==
  {<<>>, <<OtherAttr>>, <<TopFrom(<<>>)>>, <<TopFrom(<<>>), OtherAttr, TopFrom(<<>>)>>,
   <<TopFrom(<<"Remote", Comma, "Remote2">>)>>,
   <<TopFrom(<<"Remote">>), TopFrom(<<"Remote2", Comma>>)>>,
   <<ArchiveWithAttr(<<Meta("getter", <<"Remote::get">>)>>)>>,
   <<TopFrom(<<Bad>>)>>}

\* The types the other top-level attribute lists are tried on.
ProbeData ==
  Unions \cup {d \in SmallStructs : Len(d.fields) <= 1}
         \cup {d \in Enums : Len(d.variants) = 1}
         \cup {d \in RichStructs : Len(d.fields[1].attrs) <= 1}

\* The generic parameters of the annotated type: lifetimes come first, as
\* the language requires.
Lifetime(name) == [kind |-> "lifetime", name |-> name]
TypeParam(name) == [kind |-> "type", name |-> name]
ConstParam(name) == [kind |-> "const", name |-> name]
GenericChoices ==
  {<<TypeParam("A")>>, <<Lifetime("'a")>>, <<Lifetime("'a"), TypeParam("A")>>,
   <<TypeParam("A"), ConstParam("N")>>,
   <<Lifetime("'a"), Lifetime("'b"), TypeParam("A"), TypeParam("B")>>}

\* The types the generic parameter lists are tried on.
GenericData ==
  {d \in SmallStructs : d.style = "unit" \/ (Len(d.fields) = 1 /\ d.fields[1].attrs = PlainAttrs)}
  \cup {d \in Enums : Len(d.variants) = 1 /\ d.variants[1].style = "unit"}

Inputs ==
  {[attrs |-> OneFrom, ident |-> "Example", generics |-> <<>>, data |-> d] :
     d \in RichStructs \cup SmallStructs \cup Enums \cup Unions}
  \cup {[attrs |-> t, ident |-> "Example", generics |-> <<>>, data |-> d] :
          t \in TopChoices, d \in ProbeData}
  \cup {[attrs |-> OneFrom, ident |-> "Example", generics |-> g, data |-> d] :
          g \in GenericChoices, d \in GenericData}

\* The foreign type a valid use pairs with the annotated type: the same
\* members, each of the type its field declares with from(..), or of the
\* field's own type.
ForeignFieldTy(field) ==
  LET attrs == ParsedAttributes_new(field.attrs).val IN
  IF IsSome(attrs.from) THEN Unwrap(attrs.from) ELSE field.ty

ValuesOf(variant, style, fields) ==
  LET ms == {Member(style, fields[i], i - 1) : i \in 1..Len(fields)}
      at(m) == fields[CHOOSE i \in 1..Len(fields) : Member(style, fields[i], i - 1) = m]
  IN {[variant |-> variant,
       fields |-> [m \in ms |-> [val |-> f[m], ty |-> ForeignFieldTy(at(m))]]] :
        f \in [ms -> Values]}

ForeignValues(data) ==
  IF data.kind = "struct"
  THEN ValuesOf("", data.style, data.fields)
  ELSE UNION {ValuesOf(data.variants[i].ident, data.variants[i].style, data.variants[i].fields) :
                i \in 1..Len(data.variants)}

(***************************************************************************)
(* The state machine: the two derives expand, then the generated           *)
(* serialize_with, resolve_with and deserialize_with are called.           *)
(***************************************************************************)
VARIABLES
  input,            \* the DeriveInput
  pc,               \* "input", "archive_derived", "derived", "serialized", "resolved", "done"
  archive_out,      \* what #[derive(ArchiveWith)] expanded to
  deserialize_out,  \* what #[derive(DeserializeWith)] expanded to
  which,            \* the index of the foreign type the calls are made for
  remote,           \* the foreign value given to serialize_with
  ser,              \* serialize_with's result: [ok, sink, resolver]
  field,            \* the foreign value given to resolve_with
  res,              \* resolve_with's outcome: [out, log, ub]
  result,           \* deserialize_with's result
  requests,         \* the DeriveInputs of one compilation, one per annotated type
  outcomes,         \* what each request's two derives expanded to, once they ran
  tokens,           \* a token stream given to the list parsers
  parsed            \* what the parsers made of it: [separated, via, with]

vars == <<input, pc, archive_out, deserialize_out, which, remote, ser, field, res, result,
          requests, outcomes, tokens, parsed>>

Nil == <<>>

Init ==
  /\ input \in Inputs
  /\ pc = "input"
  /\ archive_out = Nil
  /\ deserialize_out = Nil
  /\ which = 0
  /\ remote = Nil
  /\ ser = Nil
  /\ field = Nil
  /\ res = Nil
  /\ result = Nil
  /\ requests = Nil
  /\ outcomes = Nil
  /\ tokens = Nil
  /\ parsed = Nil

DeriveArchiveWith ==
  /\ pc = "input"
  /\ archive_out' = lib_archive_with(input)
  /\ pc' = "archive_derived"
  /\ UNCHANGED <<input, deserialize_out, which, remote, ser, field, res, result,
               requests, outcomes, tokens, parsed>>

DeriveDeserializeWith ==
  /\ pc = "archive_derived"
  /\ deserialize_out' = lib_deserialize_with(input)
  /\ pc' = "derived"
  /\ UNCHANGED <<input, archive_out, which, remote, ser, field, res, result,
               requests, outcomes, tokens, parsed>>

CallSerializeWith ==
  /\ pc = "derived"
  /\ archive_out.status = "ok"
  /\ \E k \in 1..Len(archive_out.code.serialize_impl), x \in ForeignValues(input.data) :
       \E cap \in 0..Cardinality(DOMAIN x.fields) :
         /\ which' = k
         /\ remote' = x
         /\ ser' = serialize_with(archive_out.code.serialize_impl[k], x, cap)
  /\ pc' = "serialized"
  /\ UNCHANGED <<input, archive_out, deserialize_out, field, res, result,
               requests, outcomes, tokens, parsed>>

CallResolveWith ==
  /\ pc = "serialized"
  /\ ser.ok
  /\ \E y \in ForeignValues(input.data) :
       /\ field' = y
       /\ res' \in resolve_with(archive_out.code.archive_impl[which], input.data, y,
                                ser.resolver, Len(ser.sink))
  /\ pc' = "resolved"
  /\ UNCHANGED <<input, archive_out, deserialize_out, which, remote, ser, result,
               requests, outcomes, tokens, parsed>>

CallDeserializeWith ==
  /\ pc = "resolved"
  /\ deserialize_out.status = "ok"
  /\ result' = deserialize_with(deserialize_out.code.deserialize_impl[which], input.data, res.out)
  /\ pc' = "done"
  /\ UNCHANGED <<input, archive_out, deserialize_out, which, remote, ser, field, res,
               requests, outcomes, tokens, parsed>>

Next ==
  \/ DeriveArchiveWith
  \/ DeriveDeserializeWith
  \/ CallSerializeWith
  \/ CallResolveWith
  \/ CallDeserializeWith

Spec == Init /\ [][Next]_vars

(***************************************************************************)
(* One compilation with several annotated types: the compiler calls the    *)
(* two proc macros once per type, in any order.  Each call is handed the   *)
(* tokens of its own item; lib.rs and the modules keep no static state.    *)
(***************************************************************************)
MaxRequests == 2

TypeIdents == <<"Example1", "Example2", "Example3", "Example4">>

\* The items of the compilation: two valid ones, and three that fail (no
\* from, a union, a via that does not parse).
RequestShapes ==
  {[attrs |-> OneFrom,
    data |-> [kind |-> "struct", style |-> "named",
              fields |-> <<Field(1, PlainAttrs, "named"), Field(2, FromViaAttrs, "named")>>,
              variants |-> <<>>]],
   [attrs |-> <<TopFrom(<<"Remote", Comma, "Remote2">>)>>,
    data |-> [kind |-> "enum", style |-> "", fields |-> <<>>,
              variants |-> <<Variant(1, [style |-> "unit", attrs |-> <<>>]),
                             Variant(2, [style |-> "unnamed", attrs |-> <<PlainAttrs>>])>>]],
   [attrs |-> <<>>,
    data |-> [kind |-> "struct", style |-> "named",
              fields |-> <<Field(1, PlainAttrs, "named")>>, variants |-> <<>>]],
   [attrs |-> OneFrom,
    data |-> [kind |-> "union", style |-> "named",
              fields |-> <<Field(1, PlainAttrs, "named")>>, variants |-> <<>>]],
   [attrs |-> OneFrom,
    data |-> [kind |-> "struct", style |-> "named",
              fields |-> <<Field(1, <<ArchiveWithAttr(<<Meta("via", <<>>)>>)>>, "named")>>,
              variants |-> <<>>]]}

RequestLists ==
  {[i \in 1..MaxRequests |-> [attrs |-> q[i].attrs, ident |-> TypeIdents[i], generics |-> <<>>, data |-> q[i].data]] :
     q \in [1..MaxRequests -> RequestShapes]}

\* A call that also sees the attributes of the items expanded before it.
RequestTokens_shared(reqs, i) ==
  [reqs[i] EXCEPT !.attrs = IF i > 1 THEN reqs[i - 1].attrs \o @ ELSE @]

\* parse_macro_input!(input as DeriveInput): the item the derive is on.
RequestTokens(reqs, i) ==
  reqs[i]

InitRequests ==
  /\ requests \in RequestLists
  /\ outcomes = [i \in 1..MaxRequests |-> [archive |-> Nil, deserialize |-> Nil]]
  /\ pc = "requests"
  /\ input = Nil
  /\ archive_out = Nil
  /\ deserialize_out = Nil
  /\ which = 0
  /\ remote = Nil
  /\ ser = Nil
  /\ field = Nil
  /\ res = Nil
  /\ result = Nil
  /\ tokens = Nil
  /\ parsed = Nil

ExpandArchiveWith ==
  /\ pc = "requests"
  /\ \E i \in 1..Len(requests) :
       /\ outcomes[i].archive = Nil
       /\ outcomes' = [outcomes EXCEPT ![i].archive = lib_archive_with(RequestTokens(requests, i))]
  /\ UNCHANGED <<input, pc, archive_out, deserialize_out, which, remote, ser, field, res,
                 result, requests, tokens, parsed>>

ExpandDeserializeWith ==
  /\ pc = "requests"
  /\ \E i \in 1..Len(requests) :
       /\ outcomes[i].deserialize = Nil
       /\ outcomes' = [outcomes EXCEPT
                         ![i].deserialize = lib_deserialize_with(RequestTokens(requests, i))]
  /\ UNCHANGED <<input, pc, archive_out, deserialize_out, which, remote, ser, field, res,
                 result, requests, tokens, parsed>>

NextRequests ==
  \/ ExpandArchiveWith
  \/ ExpandDeserializeWith

SpecRequests == InitRequests /\ [][NextRequests]_vars

(***************************************************************************)
(* The list parsers on their own: a token stream is given to               *)
(* parse_separated_nonempty, to a field's via(..) and to a field's         *)
(* #[with(..)].                                                            *)
(***************************************************************************)
MaxTokens == 4

TokenChoices == {"W1", "W2", Comma, Bad}

TokenStreams == UNION {[1..n -> TokenChoices] : n \in 0..MaxTokens}

\* A field whose via list is the stream.
ViaField(stream) ==
  [ident |-> "a", ty |-> "T", attrs |-> <<ArchiveWithAttr(<<Meta("via", stream)>>)>>]

\* A field whose #[with(..)] is the stream.
WithField(stream) ==
  [ident |-> "a", ty |-> "T", attrs |-> <<WithAttr(stream)>>]

InitParse ==
  /\ tokens \in TokenStreams
  /\ parsed = [separated |-> Nil, via |-> Nil, with |-> Nil]
  /\ pc = "parse"
  /\ input = Nil
  /\ archive_out = Nil
  /\ deserialize_out = Nil
  /\ which = 0
  /\ remote = Nil
  /\ ser = Nil
  /\ field = Nil
  /\ res = Nil
  /\ result = Nil
  /\ requests = Nil
  /\ outcomes = Nil

ParseSeparatedNonempty ==
  /\ pc = "parse"
  /\ parsed.separated = Nil
  /\ parsed' = [parsed EXCEPT !.separated = parse_separated_nonempty(tokens)]
  /\ UNCHANGED <<input, pc, archive_out, deserialize_out, which, remote, ser, field, res,
                 result, requests, outcomes, tokens>>

ParseVia ==
  /\ pc = "parse"
  /\ parsed.via = Nil
  /\ parsed' = [parsed EXCEPT !.via = ParsedAttributes_new(ViaField(tokens).attrs)]
  /\ UNCHANGED <<input, pc, archive_out, deserialize_out, which, remote, ser, field, res,
                 result, requests, outcomes, tokens>>

ParseWith ==
  /\ pc = "parse"
  /\ parsed.with = Nil
  /\ parsed' = [parsed EXCEPT !.with = WithAttrs(WithField(tokens).attrs, <<>>)]
  /\ UNCHANGED <<input, pc, archive_out, deserialize_out, which, remote, ser, field, res,
                 result, requests, outcomes, tokens>>

NextParse ==
  \/ ParseSeparatedNonempty
  \/ ParseVia
  \/ ParseWith

SpecParse == InitParse /\ [][NextParse]_vars

(***************************************************************************)
(* What the properties speak of.                                           *)
(***************************************************************************)

\* Both derives expanded to code.
Derived ==
  /\ pc \notin {"input", "archive_derived"}
  /\ archive_out.status = "ok"
  /\ deserialize_out.status = "ok"

\* resolve_with was given the value that serialize_with was given.
SameValue == field = remote

\* The from, via and getter a field declares.
Declared(f) == ParsedAttributes_new(f.attrs).val

Reverse(xs) == [i \in 1..Len(xs) |-> xs[Len(xs) + 1 - i]]

IsComma(tok) == tok = Comma

NoComma(tok) == ~IsComma(tok)

IsWithAttr(attr) == attr.path = "with"

NotWithAttr(attr) == ~IsWithAttr(attr)

\* The wrappers a field's #[with(..)] attributes write, in the order written.
RECURSIVE WrittenChain(_)
WrittenChain(attrs) ==
  IF attrs = <<>> THEN <<>>
  ELSE (IF IsWithAttr(Head(attrs)) THEN SelectSeq(Head(attrs).args, NoComma) ELSE <<>>)
       \o WrittenChain(Tail(attrs))

\* The field without its #[with(..)] attributes.
WithoutWith(f) == [f EXCEPT !.attrs = SelectSeq(f.attrs, NotWithAttr)]

\* What was generated for one field, for the k-th foreign type: the type of
\* the archive side's where clause or layout struct, the cast of resolve_with,
\* the cast of serialize_with, and the value deserialize_with builds.
StructPieces(k) ==
  {[field |-> input.data.fields[i],
    archive_ty |-> archive_out.code.archive_where[i],
    resolve_cast |-> archive_out.code.archive_impl[k].resolve_fields[i].cast,
    serialize_cast |-> archive_out.code.serialize_impl[k].resolver_values[i].cast,
    de |-> deserialize_out.code.deserialize_impl[k].deserialize_fields[i].value] :
     i \in 1..Len(input.data.fields)}

LayoutOf(k, v) ==
  CHOOSE st \in {archive_out.code.archive_impl[k].archived_variant_structs[n] :
                   n \in 1..Len(archive_out.code.archive_impl[k].archived_variant_structs)} :
    st.name = ArchivedVariantName(v)

VariantPieces(k, j) ==
  {[field |-> input.data.variants[j].fields[i],
    archive_ty |-> LayoutOf(k, input.data.variants[j]).tys[i],
    resolve_cast |-> archive_out.code.archive_impl[k].resolve_arms[j].resolves[i].value,
    serialize_cast |-> archive_out.code.serialize_impl[k].serialize_arms[j].fields[i].cast,
    de |-> deserialize_out.code.deserialize_impl[k].deserialize_variants[j].fields[i].value] :
     i \in 1..Len(input.data.variants[j].fields)}

Pieces ==
  UNION {IF input.data.kind = "struct" THEN StructPieces(k)
         ELSE UNION {VariantPieces(k, j) : j \in 1..Len(input.data.variants)} :
           k \in 1..Len(archive_out.code.archive_impl)}

\* C1: for every shape, serialize_with on x, resolve_with on x and the
\* resolver, then deserialize_with on the archived value, returns x.
C1_RoundTrip ==
  (pc = "done" /\ SameValue) => result = remote

\* A sum type of two variants whose second, named, variant went round.
C1_Witness ==
  /\ pc = "done" /\ SameValue
  /\ input.data.kind = "enum" /\ Len(input.data.variants) = 2
  /\ input.data.variants[2].style = "named"
  /\ Len(input.data.variants[2].fields) = 2
  /\ remote.variant = input.data.variants[2].ident
  /\ result = remote

\* C2: the unwraps of a field are as many as its via layers, one for from
\* without via, and always as many as the wrapper layers of with_ty and
\* with_cast on the archive and serialize side.
C2_UnwrapCount ==
  Derived =>
    \A p \in Pieces :
      /\ IsSome(Declared(p.field).via) => p.de.unwraps = Len(Unwrap(Declared(p.field).via))
      /\ (IsSome(Declared(p.field).from) /\ ~IsSome(Declared(p.field).via)) => p.de.unwraps = 1
      /\ p.de.unwraps = Len(p.de.expr.ty.layers)
      /\ p.de.unwraps = Len(p.archive_ty.layers)
      /\ p.de.unwraps = Len(p.resolve_cast.casts)
      /\ p.de.unwraps = Len(p.serialize_cast.casts)

\* A field with three via layers, and one with from alone, were generated.
C2_Witness ==
  /\ Derived
  /\ \E p \in Pieces :
       /\ IsSome(Declared(p.field).via)
       /\ Len(Unwrap(Declared(p.field).via)) = 3
       /\ p.de.unwraps = 3
       /\ Len(p.serialize_cast.casts) = 3

\* C3: with via(W1, .., Wn) the wrapped type is the via wrappers composed
\* onto from's type if from is declared, onto the field's declared type
\* otherwise, Wn innermost and W1 outermost.
C3_ViaComposition ==
  Derived =>
    \A p \in Pieces :
      IsSome(Declared(p.field).via) =>
        /\ p.de.expr.ty.base = (IF IsSome(Declared(p.field).from)
                                THEN Unwrap(Declared(p.field).from) ELSE p.field.ty)
        /\ p.de.expr.ty.layers = Reverse(Unwrap(Declared(p.field).via))
        /\ p.archive_ty = p.de.expr.ty

\* from and a via chain of two or more on one field: the last via is the
\* innermost layer around from's type.
C3_Witness ==
  /\ Derived
  /\ \E p \in Pieces :
       /\ IsSome(Declared(p.field).via) /\ IsSome(Declared(p.field).from)
       /\ Len(Unwrap(Declared(p.field).via)) >= 2
       /\ p.archive_ty.base = Unwrap(Declared(p.field).from)
       /\ p.archive_ty.base /= p.field.ty
       /\ p.archive_ty.layers[1] = "V2"
       /\ p.archive_ty.layers[Len(p.archive_ty.layers)] = "V1"

\* C4: with from alone the wrapped type is With<from, declared>, one layer,
\* and the cast applies that one layer.
C4_FromAlone ==
  Derived =>
    \A p \in Pieces :
      (IsSome(Declared(p.field).from) /\ ~IsSome(Declared(p.field).via)) =>
        /\ p.archive_ty = [base |-> Unwrap(Declared(p.field).from), layers |-> <<p.field.ty>>]
        /\ p.de.expr.ty = p.archive_ty
        /\ p.resolve_cast.casts = <<p.field.ty>>
        /\ p.serialize_cast.casts = <<p.field.ty>>

\* A field with from(F1) alone was generated.
C4_Witness ==
  /\ Derived
  /\ \E p \in Pieces :
       /\ Declared(p.field).from = Some("F1") /\ ~IsSome(Declared(p.field).via)
       /\ p.archive_ty = [base |-> "F1", layers |-> <<"T">>]
       /\ p.serialize_cast.casts = <<"T">>

\* C5: with neither from nor via the wrapped type is the declared type
\* wrapped by the wrappers of all with attributes, the last innermost and
\* the first outermost; with no wrapper the type is unmodified, there is no
\* cast and no unwrap.
C5_AnonymousChain ==
  Derived =>
    \A p \in Pieces :
      (~IsSome(Declared(p.field).from) /\ ~IsSome(Declared(p.field).via)) =>
        /\ p.archive_ty = [base |-> p.field.ty, layers |-> Reverse(WrittenChain(p.field.attrs))]
        /\ p.de.expr.ty = p.archive_ty
        /\ p.resolve_cast.casts = Reverse(WrittenChain(p.field.attrs))
        /\ p.serialize_cast.casts = Reverse(WrittenChain(p.field.attrs))
        /\ p.de.unwraps = Len(WrittenChain(p.field.attrs))
        /\ WrittenChain(p.field.attrs) = <<>> =>
             /\ p.archive_ty = BareTy(p.field.ty)
             /\ p.serialize_cast.casts = <<>>
             /\ p.de.unwraps = 0

\* Two with attributes on one field: with(A1, A2) then with(A1, A2, A3).
C5_Witness ==
  /\ Derived
  /\ \E p \in Pieces :
       /\ ~IsSome(Declared(p.field).from) /\ ~IsSome(Declared(p.field).via)
       /\ WrittenChain(p.field.attrs) = <<"A1", "A2", "A1", "A2", "A3">>
       /\ p.archive_ty.layers = <<"A3", "A2", "A1", "A2", "A1">>

\* C6: with from or via declared, the wrapped type, the cast and the unwrap
\* count are those of the same field without its with attributes.
C6_ExplicitBeatsAnonymous ==
  Derived =>
    \A p \in Pieces :
      (IsSome(Declared(p.field).from) \/ IsSome(Declared(p.field).via)) =>
        /\ Ok(p.archive_ty) = Try(with_ty(WithoutWith(p.field)), LAMBDA r : Ok(r[1]))
        /\ Ok(p.de.expr.ty) = Try(with_ty(WithoutWith(p.field)), LAMBDA r : Ok(r[1]))
        /\ Ok(p.resolve_cast) = with_cast(WithoutWith(p.field), p.resolve_cast.base)
        /\ Ok(p.serialize_cast) = with_cast(WithoutWith(p.field), p.serialize_cast.base)
        /\ Ok(p.de) = with_inner(WithoutWith(p.field), Declared(WithoutWith(p.field)), p.de.expr)

\* A field with a with attribute beside from or via was generated.
C6_Witness ==
  /\ Derived
  /\ \E p \in Pieces :
       /\ IsSome(Declared(p.field).from) \/ IsSome(Declared(p.field).via)
       /\ WrittenChain(p.field.attrs) /= <<>>
       /\ WithoutWith(p.field) /= p.field
       /\ p.de.unwraps /= Len(WrittenChain(p.field.attrs))

\* A struct of one field declared with via(ws), adapting the type Remote.
ViaInput(ws) ==
  [attrs |-> OneFrom, ident |-> "Example", generics |-> <<>>,
   data |-> [kind |-> "struct", style |-> "named",
             fields |-> <<Field(1, <<ArchiveWithAttr(<<Meta("via", Join(ws))>>)>>, "named")>>,
             variants |-> <<>>]]

\* The one wrapper that has the composed effect of V1, V2 and V3.
Composed == "V1V2V3"

\* serialize_with, resolve_with and deserialize_with of what the derives
\* generate for a struct, on x.
RoundTrip(inp, x) ==
  deserialize_with(
    lib_deserialize_with(inp).code.deserialize_impl[1],
    inp.data,
    (CHOOSE o \in resolve_with(lib_archive_with(inp).code.archive_impl[1], inp.data, x,
                               serialize_with(lib_archive_with(inp).code.serialize_impl[1],
                                              x, Len(inp.data.fields)).resolver,
                               Len(inp.data.fields)) : TRUE).out)

\* C7: for via chains of length 1, 2 and 3, serializing and deserializing
\* the field applies exactly n unwraps and yields what a chain of the one
\* composed wrapper yields.
C7_ChainEquivalence ==
  \A n \in 1..3 :
    (pc = "done" /\ SameValue /\ input = ViaInput(SubSeq(ViaNames, 1, n))) =>
      /\ deserialize_out.code.deserialize_impl[1].deserialize_fields[1].value.unwraps = n
      /\ result = RoundTrip(ViaInput(<<Composed>>), remote)

\* The chain via(V1, V2, V3) went round with three unwraps.
C7_Witness ==
  /\ pc = "done" /\ SameValue
  /\ input = ViaInput(<<"V1", "V2", "V3">>)
  /\ res.out[1].enc = <<"V3", "V2", "V1">>
  /\ deserialize_out.code.deserialize_impl[1].deserialize_fields[1].value.unwraps = 3
  /\ result = remote

\* The zero-based position of variant v in the declaration.
DeclarationIndex(v) ==
  (CHOOSE i \in 1..Len(input.data.variants) : input.data.variants[i].ident = v) - 1

\* C8: for a sum type, a value of variant V comes back as variant V with
\* equal fields, and the tag written for V is V's zero-based declaration
\* index.
C8_VariantRoundTrip ==
  (pc \in {"resolved", "done"} /\ SameValue /\ input.data.kind = "enum") =>
    /\ res.out[1] = TagCell(DeclarationIndex(remote.variant))
    /\ res.log[1] = 0
    /\ pc = "done" =>
         /\ result.variant = remote.variant
         /\ result.fields = remote.fields

\* The second variant, a positional one of two fields, went round under tag 1.
C8_Witness ==
  /\ pc = "done" /\ SameValue /\ input.data.kind = "enum"
  /\ Len(input.data.variants) = 2
  /\ input.data.variants[2].style = "unnamed"
  /\ Len(input.data.variants[2].fields) = 2
  /\ remote.variant = input.data.variants[2].ident
  /\ res.out[1] = TagCell(1)
  /\ result = remote

\* C9: in a sum type's resolve_with the resolver and the value must denote
\* the same variant, for every shape of variant: when they differ, neither
\* a tag nor a field is written.
C9_VariantsAgreeOrNothingWritten ==
  (pc = "resolved" /\ input.data.kind = "enum" /\ field.variant /= ser.resolver.variant) =>
    res.log = <<>>

\* No #[archive_with(from(..))] on the type names a foreign type.
NoTopFrom(attrs) ==
  \A i \in 1..Len(attrs) :
    attrs[i].path = ATTR =>
      \A j \in 1..Len(attrs[i].metas) : attrs[i].metas[j] = Meta("from", <<>>)

\* C10: without a top-level foreign type both derives end in an error: no
\* panic, no implementation.
C10_NoFromFails ==
  NoTopFrom(input.attrs) =>
    /\ pc /= "input" => archive_out = GenErr(archive_out.msg)
    /\ pc \notin {"input", "archive_derived"} => deserialize_out = GenErr(deserialize_out.msg)

\* Both derives ran on a type whose from lists are all empty.
C10_Witness ==
  /\ pc = "derived"
  /\ input.attrs = <<TopFrom(<<>>), OtherAttr, TopFrom(<<>>)>>
  /\ input.data.kind = "enum"
  /\ archive_out.status = "err"
  /\ deserialize_out.status = "err"

\* C11: for a union both derives end in an error and emit no
\* implementation, whatever attributes the union carries.
C11_UnionFails ==
  input.data.kind = "union" =>
    /\ pc /= "input" => archive_out = GenErr(archive_out.msg)
    /\ pc \notin {"input", "archive_derived"} => deserialize_out = GenErr(deserialize_out.msg)

\* Both derives ran on a union that names a foreign type and whose field
\* carries from and via.
C11_Witness ==
  /\ pc = "derived"
  /\ input.data.kind = "union"
  /\ input.attrs = OneFrom
  /\ input.data.fields[1].attrs = FromViaAttrs
  /\ archive_out = GenErr("ArchiveWith cannot be derived for unions")
  /\ deserialize_out = GenErr("DeserializeWith cannot be derived for unions")

\* The keys ParsedAttributes documents for a field.
KnownKeys == {"from", "via", "getter", "getter_owned"}

\* A nested meta of a field's archive_with attribute that is malformed: an
\* unrecognized key, an empty via list, a token that is no type or path, or
\* a getter without exactly one value.
MalformedMeta(m) ==
  \/ m.key \notin KnownKeys
  \/ m.key = "via" /\ m.args = <<>>
  \/ m.key \in {"from", "via", "getter"} /\ \E i \in 1..Len(m.args) : m.args[i] = Bad
  \/ m.key \in {"from", "getter"} /\ Len(m.args) /= 1

HasMalformedField(data) ==
  \E i \in 1..Len(AllFields(data)) :
    \E a \in 1..Len(AllFields(data)[i].attrs) :
      /\ AllFields(data)[i].attrs[a].path = ATTR
      /\ \E j \in 1..Len(AllFields(data)[i].attrs[a].metas) :
           MalformedMeta(AllFields(data)[i].attrs[a].metas[j])

\* C12: a malformed field-level archive_with attribute makes both derives
\* end in an error; no code is returned for such a type.
C12_MalformedFieldFails ==
  HasMalformedField(input.data) =>
    /\ pc /= "input" => archive_out.status = "err"
    /\ pc \notin {"input", "archive_derived"} => deserialize_out.status = "err"

\* The members of the value x of the described type, in declaration order.
MembersOf(x) ==
  IF input.data.kind = "struct"
  THEN [i \in 1..Len(input.data.fields) |-> Member(input.data.style, input.data.fields[i], i - 1)]
  ELSE LET v == input.data.variants[DeclarationIndex(x.variant) + 1]
       IN [i \in 1..Len(v.fields) |-> Member(v.style, v.fields[i], i - 1)]

\* C13: serialize_with forwards the fields in declaration order and returns
\* the first failure at once: no later field is serialized, nothing is
\* retried, no resolver is returned.
C13_FirstErrorWins ==
  pc \in {"serialized", "resolved", "done"} =>
    /\ [i \in 1..Len(ser.sink) |-> ser.sink[i].slot] = SubSeq(MembersOf(remote), 1, Len(ser.sink))
    /\ ser.ok => /\ ser.tried = MembersOf(remote)
                 /\ Len(ser.sink) = Len(ser.tried)
    /\ ~ser.ok => /\ ser.tried = SubSeq(MembersOf(remote), 1, Len(ser.sink) + 1)
                  /\ Len(ser.tried) = Len(ser.sink) + 1
                  /\ ser.resolver = None

\* The sink took the first field of two and refused the second.
C13_Witness ==
  /\ pc = "serialized"
  /\ ~ser.ok
  /\ Len(MembersOf(remote)) = 2
  /\ Len(ser.sink) = 1
  /\ ser.tried = MembersOf(remote)
  /\ ser.resolver = None

\* A struct of one field read through the accessor Remote::get, by
\* reference or (owned) on a duplicate of the foreign value.
GetterInput(owned) ==
  [attrs |-> OneFrom, ident |-> "Example", generics |-> <<>>,
   data |-> [kind |-> "struct", style |-> "named",
             fields |-> <<Field(1, <<ArchiveWithAttr(
                                       <<Meta("getter", <<"Remote::get">>)>>
                                       \o (IF owned THEN <<Meta("getter_owned", <<>>)>> ELSE <<>>))>>,
                                "named")>>,
             variants |-> <<>>]]

\* The bytes of x under what the derive generates for a struct: what
\* serialize_with hands to the sink, then the archived value that
\* resolve_with writes.
Bytes(inp, x) ==
  <<serialize_with(lib_archive_with(inp).code.serialize_impl[1], x, Len(inp.data.fields)).sink,
    (CHOOSE o \in resolve_with(lib_archive_with(inp).code.archive_impl[1], inp.data, x,
                               serialize_with(lib_archive_with(inp).code.serialize_impl[1],
                                              x, Len(inp.data.fields)).resolver,
                               Len(inp.data.fields)) : TRUE).out>>

\* C14: for the same foreign value, the adapter with getter and the adapter
\* with the same accessor and getter_owned produce the same bytes.
C14_GetterModesAgree ==
  \A owned \in BOOLEAN :
    (pc \in {"resolved", "done"} /\ SameValue /\ input = GetterInput(owned)) =>
      <<ser.sink, res.out>> = Bytes(GetterInput(~owned), remote)

\* The by-reference adapter serialized and resolved the value 1.
C14_Witness ==
  /\ pc = "resolved" /\ SameValue
  /\ input = GetterInput(FALSE)
  /\ archive_out.code.serialize_impl[1].field_vars[1].expr.kind = "getter"
  /\ lib_archive_with(GetterInput(TRUE)).code.serialize_impl[1].field_vars[1].expr.kind
       = "getter_owned"
  /\ ser.sink[1].val = 1
  /\ res.out[1].val = 1

\* The accessor contract of a field of a value of type from_ty: the declared
\* getter, on the reference or on a duplicate, or direct access to member.
ContractAccess(f, member, from_ty) ==
  IF IsSome(Declared(f).getter)
  THEN [kind |-> IF Unwrap(Declared(f).getter).owned_self THEN "getter_owned" ELSE "getter",
        path |-> Unwrap(Declared(f).getter).path,
        clone_of |-> IF Unwrap(Declared(f).getter).owned_self THEN from_ty ELSE ""]
  ELSE [kind |-> "field", path |-> member, clone_of |-> ""]

\* How an arm obtains the value its cast names: the member of the matched
\* value that the arm's pattern binds to that name.
BindingAccess(bindings, style, base) ==
  [kind |-> "field",
   path |-> IF style = "named" THEN bindings[IndexOf(bindings, base)][2]
            ELSE Index(IndexOf(bindings, base) - 1),
   clone_of |-> ""]

\* How the generated serialize_with and resolve_with of the k-th foreign
\* type obtain each field's value, beside the field's accessor contract.
StructAccesses(k) ==
  {[contract |-> ContractAccess(input.data.fields[i],
                                Member(input.data.style, input.data.fields[i], i - 1),
                                archive_out.code.archive_impl[k].from_ty),
    resolve |-> archive_out.code.archive_impl[k].resolve_fields[i].expr,
    serialize |-> archive_out.code.serialize_impl[k].field_vars[i].expr] :
     i \in 1..Len(input.data.fields)}

VariantAccesses(k, j) ==
  {[contract |-> ContractAccess(input.data.variants[j].fields[i],
                                Member(input.data.variants[j].style,
                                       input.data.variants[j].fields[i], i - 1),
                                archive_out.code.archive_impl[k].from_ty),
    resolve |-> BindingAccess(archive_out.code.archive_impl[k].resolve_arms[j].self_bindings,
                              input.data.variants[j].style,
                              archive_out.code.archive_impl[k].resolve_arms[j].resolves[i].value.base),
    serialize |-> BindingAccess(archive_out.code.serialize_impl[k].serialize_arms[j].bindings,
                                input.data.variants[j].style,
                                archive_out.code.serialize_impl[k].serialize_arms[j].fields[i].cast.base)] :
     i \in 1..Len(input.data.variants[j].fields)}

Accesses ==
  UNION {IF input.data.kind = "struct" THEN StructAccesses(k)
         ELSE UNION {VariantAccesses(k, j) : j \in 1..Len(input.data.variants)} :
           k \in 1..Len(archive_out.code.archive_impl)}

\* C15: for every field of a named struct, a positional struct and every
\* variant, serialize_with and resolve_with obtain the value by the field's
\* accessor contract: direct access without a getter, the declared getter
\* (on the reference, or on a duplicate in owned mode) with one.
C15_AccessorContract ==
  Derived =>
    \A a \in Accesses : a.resolve = a.contract /\ a.serialize = a.contract

\* The foreign types the type declares, as written: the types of every
\* from(..) list of every archive_with attribute, in order.
RECURSIVE FromTypes(_)
FromTypes(metas) ==
  IF metas = <<>> THEN <<>>
  ELSE (IF Head(metas).key = "from" THEN SelectSeq(Head(metas).args, NoComma) ELSE <<>>)
       \o FromTypes(Tail(metas))

RECURSIVE DeclaredForeign(_)
DeclaredForeign(attrs) ==
  IF attrs = <<>> THEN <<>>
  ELSE (IF Head(attrs).path = ATTR THEN FromTypes(Head(attrs).metas) ELSE <<>>)
       \o DeclaredForeign(Tail(attrs))

\* The fields and per-field chains of the three impls for the k-th type.
Chains(k) ==
  <<[n \in 1..Len(archive_out.code.archive_impl[k].resolve_fields) |->
       <<archive_out.code.archive_impl[k].resolve_fields[n].out,
         archive_out.code.archive_impl[k].resolve_fields[n].ty,
         archive_out.code.archive_impl[k].resolve_fields[n].cast>>],
    archive_out.code.archive_impl[k].resolve_arms,
    archive_out.code.serialize_impl[k].resolver_values,
    archive_out.code.serialize_impl[k].serialize_arms,
    deserialize_out.code.deserialize_impl[k].deserialize_fields,
    deserialize_out.code.deserialize_impl[k].deserialize_variants>>

\* C16: a valid type that declares k >= 1 foreign types gets exactly k
\* archive, k serialize and k deserialize impls, the i-th for the i-th
\* foreign type, all over the same fields and chains.
C16_OneImplPerForeignType ==
  Derived =>
    /\ Len(DeclaredForeign(input.attrs)) >= 1
    /\ Len(archive_out.code.archive_impl) = Len(DeclaredForeign(input.attrs))
    /\ Len(archive_out.code.serialize_impl) = Len(DeclaredForeign(input.attrs))
    /\ Len(deserialize_out.code.deserialize_impl) = Len(DeclaredForeign(input.attrs))
    /\ \A k \in 1..Len(DeclaredForeign(input.attrs)) :
         /\ archive_out.code.archive_impl[k].from_ty = DeclaredForeign(input.attrs)[k]
         /\ archive_out.code.serialize_impl[k].from_ty = DeclaredForeign(input.attrs)[k]
         /\ deserialize_out.code.deserialize_impl[k].from_ty = DeclaredForeign(input.attrs)[k]
         /\ Chains(k) = Chains(1)

\* Two foreign types declared in two attributes, on a struct whose field
\* carries from and via.
C16_Witness ==
  /\ Derived
  /\ input.attrs = <<TopFrom(<<"Remote">>), TopFrom(<<"Remote2", Comma>>)>>
  /\ input.data.kind = "struct"
  /\ Len(input.data.fields) = 1
  /\ input.data.fields[1].attrs = FromViaAttrs
  /\ Len(archive_out.code.serialize_impl) = 2
  /\ deserialize_out.code.deserialize_impl[2].from_ty = "Remote2"

\* How often slot m occurs in a sequence of slots.
Occurrences(slots, m) == Cardinality({i \in 1..Len(slots) : slots[i] = m})

SinkSlots == [i \in 1..Len(ser.sink) |-> ser.sink[i].slot]

\* C17: in one serialize_with call no field is forwarded to the nested
\* serialize, or written to the sink, more than once; a call that succeeds
\* forwards and writes every field exactly once; and the sink holds the same
\* writes after resolve_with (and deserialize_with) as after serialize_with.
C17_NoDuplicateSinkWrite ==
  pc \in {"serialized", "resolved", "done"} =>
    /\ \A m \in DOMAIN remote.fields :
         /\ Occurrences(ser.tried, m) <= 1
         /\ Occurrences(SinkSlots, m) <= 1
         /\ ser.ok => Occurrences(ser.tried, m) = 1 /\ Occurrences(SinkSlots, m) = 1
    /\ \A i \in 1..Len(SinkSlots) : SinkSlots[i] \in DOMAIN remote.fields
    /\ ser = serialize_with(archive_out.code.serialize_impl[which], remote, Len(ser.sink))

\* Two fields were serialized and then resolved.
C17_Witness ==
  /\ pc = "resolved"
  /\ Cardinality(DOMAIN remote.fields) = 2
  /\ Len(ser.sink) = 2
  /\ Len(res.log) >= 2

\* The cell that resolving the i-th declared field of the struct must leave:
\* the field's value in the value given to resolve_with, under the field's
\* wrappers, resolved with the resolver serialize_with made for that field,
\* at pos plus the field's offset.
ExpectedStructCell(i) ==
  FieldCell(field.fields[ArchivedStructLayout(input.data)[i]].val,
            ForeignFieldTy(input.data.fields[i]),
            with_cast(input.data.fields[i], "__field").val.casts,
            ser.resolver.fields[ArchivedStructLayout(input.data)[i]],
            Len(ser.sink) + (i - 1))

\* C18: resolve_with of a struct resolves every field exactly once, in
\* declaration order, each with its own wrapped view, its own resolver, its
\* own slot of the output and the position pos plus its own offset.
C18_StructResolveOwnSlots ==
  (pc \in {"resolved", "done"} /\ input.data.kind = "struct") =>
    /\ ~res.ub
    /\ res.log = [i \in 1..Len(input.data.fields) |-> i - 1]
    /\ Len(res.out) = Len(input.data.fields)
    /\ \A i \in 1..Len(input.data.fields) : res.out[i] = ExpectedStructCell(i)

\* A struct of two fields whose resolvers differ and whose values differ
\* from those serialize_with saw.
C18_Witness ==
  /\ pc = "resolved"
  /\ input.data.kind = "struct"
  /\ Len(input.data.fields) = 2
  /\ ser.resolver.fields[ArchivedStructLayout(input.data)[1]]
       /= ser.resolver.fields[ArchivedStructLayout(input.data)[2]]
  /\ field /= remote
  /\ res.log = <<0, 1>>

\* The fields of the variant the resolver given to resolve_with belongs to.
ResolvedVariantFields ==
  input.data.variants[CHOOSE j \in 1..Len(input.data.variants) :
                        input.data.variants[j].ident = remote.variant].fields

\* C19: resolve_with of an enum writes the variant's tag before it resolves
\* any field of the variant, and then resolves the fields in the variant's
\* declaration order (at the offsets 1, 2, .. after the tag at offset 0).
C19_TagBeforeFields ==
  (pc \in {"resolved", "done"} /\ input.data.kind = "enum") =>
    /\ res.log /= <<>> => res.log[1] = 0 /\ res.out[1].kind = "tag"
    /\ \A i \in 2..Len(res.log) : res.log[i] = i - 1 /\ res.out[i].kind = "field"
    /\ ~res.ub => Len(res.log) = 1 + Len(ResolvedVariantFields)

\* A variant of two fields was resolved.
C19_Witness ==
  /\ pc = "resolved"
  /\ input.data.kind = "enum"
  /\ ~res.ub
  /\ Len(ResolvedVariantFields) = 2
  /\ res.log = <<0, 1, 2>>

\* serialize_with was called on a unit struct, or on a unit variant.
UnitStructCase == input.data.kind = "struct" /\ input.data.style = "unit"

UnitVariantCase ==
  /\ input.data.kind = "enum"
  /\ \E j \in 1..Len(input.data.variants) :
       /\ input.data.variants[j].ident = remote.variant
       /\ input.data.variants[j].style = "unit"

\* C20: for a unit struct resolve_with writes nothing, for a unit variant it
\* writes the tag and nothing else; serialize_with of either writes nothing
\* to the sink and succeeds, even when the sink accepts no write; and
\* deserialize_with returns the unit value.
C20_UnitCases ==
  /\ (pc \in {"serialized", "resolved", "done"} /\ (UnitStructCase \/ UnitVariantCase)) =>
       /\ ser.ok
       /\ ser.sink = <<>>
       /\ ser.tried = <<>>
  /\ (pc \in {"resolved", "done"} /\ UnitStructCase) =>
       /\ res.log = <<>>
       /\ res.out = Blank(input.data)
       /\ ~res.ub
  /\ (pc \in {"resolved", "done"} /\ UnitVariantCase) =>
       /\ res.log = <<0>>
       /\ res.out = [Blank(input.data) EXCEPT ![1] = TagCell(DeclarationIndex(remote.variant))]
       /\ ~res.ub
  /\ (pc = "done" /\ (UnitStructCase \/ UnitVariantCase)) =>
       /\ result.variant = remote.variant
       /\ DOMAIN result.fields = {}

\* The second variant of an enum is a unit variant and went through
\* serialize_with, resolve_with and deserialize_with.
C20_Witness ==
  /\ pc = "done"
  /\ UnitVariantCase
  /\ Len(input.data.variants) = 2
  /\ remote.variant = input.data.variants[2].ident
  /\ res.log = <<0>>
  /\ result.variant = remote.variant

\* What processing request i alone gives: the two derives on its own item.
Alone(i) ==
  [archive |-> lib_archive_with(requests[i]),
   deserialize |-> lib_deserialize_with(requests[i])]

\* Every expansion made so far is the one the request gives alone.
OutcomesAsAlone ==
  \A i \in 1..Len(requests) :
    /\ outcomes[i].archive \in {Nil, Alone(i).archive}
    /\ outcomes[i].deserialize \in {Nil, Alone(i).deserialize}

\* A step changes no expansion that was already made, and leaves every
\* expansion that is still to be made possible.
OutcomesKept ==
  \A i \in 1..Len(requests) :
    /\ outcomes[i].archive /= Nil => outcomes'[i].archive = outcomes[i].archive
    /\ outcomes[i].deserialize /= Nil => outcomes'[i].deserialize = outcomes[i].deserialize

MissingFrom(inp) == DeclaredForeign(inp.attrs) = <<>>

UnparseableWrapper(attr) ==
  \/ attr.path = "with" /\ \E i \in 1..Len(attr.args) : attr.args[i] = Bad
  \/ /\ attr.path = ATTR
     /\ \E j \in 1..Len(attr.metas) :
          /\ attr.metas[j].key = "via"
          /\ \E i \in 1..Len(attr.metas[j].args) : attr.metas[j].args[i] = Bad

HasUnparseableWrapper(data) ==
  \E i \in 1..Len(AllFields(data)) :
    \E a \in 1..Len(AllFields(data)[i].attrs) : UnparseableWrapper(AllFields(data)[i].attrs[a])

\* C22: on an input with no top-level from, on a union, and on an input
\* with an unparseable wrapper path, each derive ends in an error (one
\* error value, returned as a compile_error!) and returns no code.
C22_MalformedSurfacesOneError ==
  (MissingFrom(input) \/ input.data.kind = "union" \/ HasUnparseableWrapper(input.data)) =>
    /\ pc /= "input" => archive_out = GenErr(archive_out.msg)
    /\ pc \notin {"input", "archive_derived"} => deserialize_out = GenErr(deserialize_out.msg)

\* The number of unwraps a field declares: one per via wrapper, one for a
\* from without via, one per anonymous wrapper otherwise.
DeclaredUnwraps(f) ==
  IF IsSome(Declared(f).via) THEN Len(Unwrap(Declared(f).via))
  ELSE IF IsSome(Declared(f).from) THEN 1
  ELSE Len(WrittenChain(f.attrs))

\* The generated value of field number i (from 1) of a list of fields: it
\* fills the field's own member, peels every layer of the deserialized type
\* with the declared number of unwraps, and is left with the type of the
\* foreign field.
RebuiltField(df, style, f, i) ==
  /\ df.slot = Member(style, f, i - 1)
  /\ df.value.unwraps = DeclaredUnwraps(f)
  /\ df.value.unwraps = Len(df.value.expr.ty.layers)
  /\ df.value.expr.ty.base = ForeignFieldTy(f)

RebuiltStruct(impl) ==
  /\ impl.ctor = input.data.style
  /\ Len(impl.deserialize_fields) = Len(input.data.fields)
  /\ \A i \in 1..Len(input.data.fields) :
       RebuiltField(impl.deserialize_fields[i], input.data.style, input.data.fields[i], i)

RebuiltVariant(arm, v) ==
  /\ arm.style = v.style
  /\ arm.archived_variant = v.ident
  /\ arm.ctor_variant = v.ident
  /\ Len(arm.fields) = Len(v.fields)
  /\ \A i \in 1..Len(v.fields) : RebuiltField(arm.fields[i], v.style, v.fields[i], i)

\* C23: deserialize_with unwraps every deserialized field the declared
\* number of times, which leaves the type of the foreign field, and builds
\* the foreign value with the constructor shape of the annotated type
\* (named, positional or unit), one argument per field in declaration
\* order; the value built has a value of the foreign field's type in every
\* member.
C23_UnwrapAndRebuild ==
  /\ Derived =>
       \A k \in 1..Len(deserialize_out.code.deserialize_impl) :
         IF input.data.kind = "struct"
         THEN RebuiltStruct(deserialize_out.code.deserialize_impl[k])
         ELSE /\ Len(deserialize_out.code.deserialize_impl[k].deserialize_variants)
                   = Len(input.data.variants)
              /\ \A j \in 1..Len(input.data.variants) :
                   RebuiltVariant(deserialize_out.code.deserialize_impl[k].deserialize_variants[j],
                                  input.data.variants[j])
  /\ (pc = "done" /\ SameValue) =>
       /\ DOMAIN result.fields = DOMAIN remote.fields
       /\ \A m \in DOMAIN remote.fields : result.fields[m].ty = remote.fields[m].ty

\* A positional struct of two fields, one with from and a via of two
\* wrappers, was deserialized.
C23_Witness ==
  /\ pc = "done"
  /\ SameValue
  /\ input.data.kind = "struct"
  /\ input.data.style = "unnamed"
  /\ Len(input.data.fields) = 2
  /\ input.data.fields[2].attrs = FromViaAttrs
  /\ deserialize_out.code.deserialize_impl[1].deserialize_fields[2].value.unwraps = 2
  /\ result.fields["1"].ty = "F1"

\* The list without its element number p.
Without(xs, p) == SubSeq(xs, 1, p - 1) \o SubSeq(xs, p + 1, Len(xs))

\* The list is the parameters of the input, in order, and one more.
OneMoreParameter(xs) ==
  /\ Len(xs) = Len(input.generics) + 1
  /\ \E p \in 1..Len(xs) :
       /\ Without(xs, p) = input.generics
       /\ \A i \in 1..Len(input.generics) : xs[p].name /= input.generics[i].name

\* C24: the archive impls have exactly the generic parameters of the input
\* type, in the declared order; the serialize impls and the deserialize
\* impls have these and exactly one more parameter; every impl is for the
\* type applied to its own parameters.
C24_GenericParameters ==
  Derived =>
    /\ archive_out.code.impl_generics = input.generics
    /\ OneMoreParameter(archive_out.code.serialize_impl_generics)
    /\ OneMoreParameter(deserialize_out.code.impl_generics)
    /\ archive_out.code.ty_generics = [i \in 1..Len(input.generics) |-> input.generics[i].name]
    /\ deserialize_out.code.ty_generics = archive_out.code.ty_generics

\* A type with two lifetimes and two type parameters was expanded.
C24_Witness ==
  /\ Derived
  /\ Len(input.generics) = 4
  /\ archive_out.code.serialize_impl_generics[3].name = "__S"
  /\ deserialize_out.code.impl_generics[3].name = "__D"

\* C25: for every field, whatever from, via and with(..) it carries, the
\* wrappers with_cast puts around the field expression (in resolve_with and
\* in serialize_with) are, layer for layer and in the same nesting order,
\* the layers of the type with_ty returns, which is the type of the where
\* clauses and of the deserialize call; so the values handed to the nested
\* serialize and resolve are encoded by exactly these layers.
C25_CastMatchesType ==
  /\ Derived =>
       \A p \in Pieces :
         /\ with_ty(p.field).ok /\ with_cast(p.field, "e").ok
         /\ with_cast(p.field, "e").val.casts = with_ty(p.field).val[1].layers
         /\ p.archive_ty = with_ty(p.field).val[1]
         /\ p.de.expr.ty = with_ty(p.field).val[1]
         /\ p.resolve_cast.casts = p.archive_ty.layers
         /\ p.serialize_cast.casts = p.archive_ty.layers
  /\ (pc \in {"resolved", "done"} /\ SameValue /\ input.data.kind = "struct") =>
       \A i \in 1..Len(input.data.fields) :
         /\ ser.sink[i].enc = with_ty(input.data.fields[i]).val[1].layers
         /\ res.out[i].enc = with_ty(input.data.fields[i]).val[1].layers

\* A field with an anonymous wrapper and from and a via of two wrappers was
\* serialized and resolved under the two via wrappers.
C25_Witness ==
  /\ pc = "resolved"
  /\ SameValue
  /\ input.data.kind = "struct"
  /\ Len(input.data.fields) = 1
  /\ input.data.fields[1].attrs = FromViaAttrs
  /\ Len(ser.sink) = 1
  /\ ser.sink[1].enc = res.out[1].enc
  /\ Len(res.out[1].enc) = 2
  /\ res.out[1].enc[1] /= res.out[1].enc[2]

\* The layout struct and the resolve arm of variant j agree on a layout
\* with the tag in the first slot and the fields after it in declaration
\* order; a positional variant has the tag in slot 0 and field i in slot
\* i + 1.
TagFirst(k, j) ==
  LET v == input.data.variants[j]
      lay == LayoutOf(k, v)
      arm == archive_out.code.archive_impl[k].resolve_arms[j]
  IN /\ lay.members[1] = arm.tag_member
     /\ v.style = "unnamed" => arm.tag_member = Index(0)
     /\ Len(arm.resolves) = Len(v.fields)
     /\ \A i \in 1..Len(v.fields) :
          /\ lay.members[i + 1] = arm.resolves[i].out
          /\ v.style = "unnamed" => arm.resolves[i].out = Index(i)
          /\ v.style = "named" => arm.resolves[i].out = v.fields[i].ident

\* C26: the archived layout of a variant has the tag in its first slot and
\* the fields after it in declaration order; resolve_with writes the tag of
\* a positional variant into slot 0 and its field i into slot i + 1, and
\* field i of a positional struct into slot i.
C26_TagThenFields ==
  /\ (Derived /\ input.data.kind = "enum") =>
       \A k \in 1..Len(archive_out.code.archive_impl) :
         \A j \in 1..Len(input.data.variants) :
           input.data.variants[j].style /= "unit" => TagFirst(k, j)
  /\ (Derived /\ input.data.kind = "struct" /\ input.data.style = "unnamed") =>
       \A k \in 1..Len(archive_out.code.archive_impl) :
         \A i \in 1..Len(input.data.fields) :
           archive_out.code.archive_impl[k].resolve_fields[i].out = Index(i - 1)
  /\ (pc \in {"resolved", "done"} /\ ~res.ub /\ input.data.kind = "enum"
        /\ ~UnitVariantCase) =>
       /\ res.out[1].kind = "tag"
       /\ \A i \in 1..Len(MembersOf(remote)) :
            /\ res.out[i + 1].kind = "field"
            /\ res.out[i + 1].val = field.fields[MembersOf(remote)[i]].val
            /\ res.out[i + 1].pos = Len(ser.sink) + i
  /\ (pc \in {"resolved", "done"} /\ input.data.kind = "struct"
        /\ input.data.style = "unnamed") =>
       \A i \in 1..Len(input.data.fields) :
         /\ res.out[i].val = field.fields[Index(i - 1)].val
         /\ res.out[i].pos = Len(ser.sink) + (i - 1)

\* A positional variant of two fields with different values was resolved.
C26_Witness ==
  /\ pc = "resolved"
  /\ ~res.ub
  /\ input.data.kind = "enum"
  /\ MembersOf(remote) = <<"0", "1">>
  /\ field.fields["0"].val /= field.fields["1"].val
  /\ res.out[1].kind = "tag"
  /\ res.out[3].val = field.fields["1"].val

\* The number of leading (item, punctuation) pairs of the stream.
LeadingPairs ==
  CHOOSE n \in 0..(Len(tokens) \div 2) :
    /\ \A i \in 1..n : ParsesAsType(tokens[2 * i - 1]) /\ tokens[2 * i] = Comma
    /\ \A m \in (n + 1)..(Len(tokens) \div 2) :
         \E i \in 1..m : ~(ParsesAsType(tokens[2 * i - 1]) /\ tokens[2 * i] = Comma)

\* An item follows the leading pairs.
ItemAfterPairs ==
  /\ Len(tokens) >= 2 * LeadingPairs + 1
  /\ ParsesAsType(tokens[2 * LeadingPairs + 1])

\* C27: parse_separated_nonempty succeeds exactly when the leading items
\* with their punctuation are followed by one more item: it fails on the
\* empty stream and after a trailing punctuation; on success it returns
\* these items, at least one, and stops in front of the first token that is
\* no punctuation, whatever follows.  So a via list and a with list that
\* parse have at least one wrapper (and nothing left over).
C27_SeparatedNonempty ==
  /\ (pc = "parse" /\ parsed.separated /= Nil) =>
       /\ parsed.separated.ok = ItemAfterPairs
       /\ tokens = <<>> => ~parsed.separated.ok
       /\ parsed.separated.ok =>
            /\ Len(parsed.separated.val) = LeadingPairs + 1
            /\ \A i \in 1..Len(parsed.separated.val) :
                 parsed.separated.val[i] = tokens[2 * i - 1]
            /\ parsed.separated.rest = SubSeq(tokens, 2 * LeadingPairs + 2, Len(tokens))
            /\ parsed.separated.rest /= <<>> => Head(parsed.separated.rest) /= Comma
       /\ (tokens /= <<>> /\ tokens[Len(tokens)] = Comma /\ parsed.separated.ok) =>
            parsed.separated.rest /= <<>>
  /\ (pc = "parse" /\ parsed.via /= Nil /\ parsed.via.ok) =>
       /\ IsSome(parsed.via.val.via)
       /\ Len(Unwrap(parsed.via.val.via)) >= 1
       /\ tokens = Join(Unwrap(parsed.via.val.via))
  /\ (pc = "parse" /\ parsed.with /= Nil /\ parsed.with.ok) =>
       /\ Len(parsed.with.val) = 1
       /\ Len(parsed.with.val[1]) >= 1
       /\ tokens = Join(parsed.with.val[1])

\* Two items were parsed and the parser stopped in front of a third token;
\* the same stream fails as a via list and as a with list.
C27_Witness ==
  /\ pc = "parse"
  /\ tokens = <<"W1", Comma, "W2", "W1">>
  /\ parsed.separated /= Nil /\ parsed.separated.ok
  /\ parsed.separated.val = <<"W1", "W2">>
  /\ parsed.separated.rest = <<"W1">>
  /\ parsed.via /= Nil /\ ~parsed.via.ok
  /\ parsed.with /= Nil /\ ~parsed.with.ok

\* Every call the derives make on field f without checking its result
\* succeeds.
UncheckedCallsSucceed(f) ==
  /\ ParsedAttributes_new(f.attrs).ok
  /\ with_ty(f).ok
  /\ with_cast(f, "e").ok
  /\ with_inner(f, with_ty(f).val[2], [ty |-> with_ty(f).val[1], source |-> "e"]).ok

\* C28: no expansion panics: for every shape and every attribute list, a
\* field that passes the validation pass (with_ty with `?`) passes every
\* later unchecked call, and each derive ends in code or in an error.
C28_NoPanic ==
  /\ pc /= "input" =>
       /\ archive_out.status \in {"ok", "err"}
       /\ \A i \in 1..Len(AllFields(input.data)) :
            with_ty(AllFields(input.data)[i]).ok => UncheckedCallsSucceed(AllFields(input.data)[i])
  /\ pc \notin {"input", "archive_derived"} => deserialize_out.status \in {"ok", "err"}

\* A field with an unparseable #[with(..)] beside from(..) passed the
\* validation and the unchecked calls.
C28_Witness ==
  /\ Derived
  /\ input.data.kind = "struct"
  /\ Len(input.data.fields) = 1
  /\ input.data.fields[1].attrs = <<WithAttr(<<Bad>>), ArchiveWithAttr(<<Meta("from", <<"F1">>)>>)>>

\* The helper items of the scope `const _: () = { #archive_impl }`: the
\* items that come with every archive impl, one after the other.
ArchiveScopeItems ==
  Flatten([k \in 1..Len(archive_out.code.archive_impl) |-> archive_out.code.archive_impl[k].items])

\* C29: whatever the number of foreign types, no helper item (ArchivedTag,
\* ArchivedVariant<Name>) is defined twice in the scope the archive impls
\* are emitted into.
C29_HelperItemsOnce ==
  (pc /= "input" /\ archive_out.status = "ok") =>
    \A i, j \in 1..Len(ArchiveScopeItems) :
      i /= j => ArchiveScopeItems[i] /= ArchiveScopeItems[j]

\* A foreign type that declares the same variants in the opposite order:
\* the zero-based index of variant v in that declaration.
ForeignIndex(v) == Len(input.data.variants) - 1 - DeclarationIndex(v)

\* The arms generated for variant j all go by the variant's name.
ArmsByName(k, j) ==
  LET name == input.data.variants[j].ident
      sarm == archive_out.code.serialize_impl[k].serialize_arms[j]
      rarm == archive_out.code.archive_impl[k].resolve_arms[j]
      darm == deserialize_out.code.deserialize_impl[k].deserialize_variants[j]
  IN /\ sarm.field_variant = name /\ sarm.resolver_variant = name
     /\ rarm.resolver_variant = name /\ rarm.tag = name
     /\ rarm.match_field => rarm.field_variant = name
     /\ archive_out.code.archive_impl[k].archived_variant_tags[j] = name
     /\ darm.archived_variant = name /\ darm.ctor_variant = name

\* C30: the variants of the foreign type and of the annotated type
\* correspond by name: serialize_with maps the foreign variant V to the
\* resolver variant V, resolve_with writes the tag of V, which is V's index
\* in the annotated type's declaration whatever the order of the foreign
\* type's declaration, and deserialize_with maps the archived variant V to
\* the foreign variant V.
C30_VariantsByName ==
  /\ (Derived /\ input.data.kind = "enum") =>
       \A k \in 1..Len(archive_out.code.archive_impl) :
         \A j \in 1..Len(input.data.variants) : ArmsByName(k, j)
  /\ (pc \in {"serialized", "resolved", "done"} /\ input.data.kind = "enum"
        /\ ser.ok) =>
       ser.resolver.variant = remote.variant
  /\ (pc \in {"resolved", "done"} /\ input.data.kind = "enum" /\ ~res.ub) =>
       res.out[1] = TagCell(DeclarationIndex(remote.variant))
  /\ (pc = "done" /\ input.data.kind = "enum" /\ ~res.ub) =>
       result.variant = remote.variant

\* The second variant of two went the whole way; its tag 1 is not its index
\* in a foreign type that declares the variants the other way round.
C30_Witness ==
  /\ pc = "done"
  /\ input.data.kind = "enum"
  /\ Len(input.data.variants) = 2
  /\ remote.variant = input.data.variants[2].ident
  /\ SameValue
  /\ res.out[1] = TagCell(1)
  /\ ForeignIndex(remote.variant) = 0
  /\ result.variant = remote.variant

=============================================================================
